---------------------------- MODULE Spec2Model ----------------------------
(***************************************************************************)
(* Model of the mcdata codec layer: the flatten/unflatten engine of        *)
(* block_entity_types! / entity_types!, the tagged dispatch with fallback  *)
(* of block_entities! / entities!, the untagged resolution of              *)
(* block_entities!, and the generic records with their (de)serialization.  *)
(***************************************************************************)
EXTENDS Integers, Sequences, FiniteSets, TLC

(***************************************************************************)
(* Bounds of the model.                                                    *)
(***************************************************************************)
\* coordinates and integer payloads range over 0..MaxCoord
MaxCoord == 1
\* number of distinct UUIDs
MaxUuid == 1
\* components of a BlockPos range over -MaxAbs..MaxAbs and +-I32Max
MaxAbs == 2
\* the note of a note block ranges over 0..MaxNote
MaxNote == 3

(***************************************************************************)
(* Tagged values (fastnbt::Value).  Every value is a record with the same  *)
(* three fields; `kind` is the NBT tag, `n` the numeric payload and `s`    *)
(* the string payload.  NoneVal is Rust's Option::None.                    *)
(***************************************************************************)
Val(kind, n, s) == [kind |-> kind, n |-> n, s |-> s]
IntV(n) == Val("Int", n, "")
StrV(s) == Val("String", 0, s)
NaNV == Val("Double", 0, "NaN")
UuidV(n) == Val("IntArray", n, "")
NoneVal == Val("None", 0, "")

\* PartialEq of fastnbt::Value: structural, except that a NaN float is not
\* equal to itself.
ValueEq(a, b) == a = b /\ a # NaNV

(***************************************************************************)
(* HashMap<String, Value> as a TLA+ function; a compound on the wire is a  *)
(* sequence of entries [key, value] as produced by serde's MapAccess.      *)
(***************************************************************************)
EmptyMap == [k \in {} |-> NoneVal]
MapInsert(m, k, v) == [kk \in (DOMAIN m) \cup {k} |-> IF kk = k THEN v ELSE m[kk]]
MapRemove(m, k) == [kk \in (DOMAIN m) \ {k} |-> m[kk]]
Entry(k, v) == [key |-> k, value |-> v]

\* HashMap PartialEq: same key set and ValueEq on every key
MapEq(a, b) == DOMAIN a = DOMAIN b /\ \A k \in DOMAIN a : ValueEq(a[k], b[k])

RECURSIVE SeqOfMapFrom(_, _)
SeqOfMapFrom(m, keys) ==
    IF keys = {} THEN <<>>
    ELSE LET k == CHOOSE kk \in keys : TRUE
         IN <<Entry(k, m[k])>> \o SeqOfMapFrom(m, keys \ {k})
\* iteration over a HashMap (one of its iteration orders)
SeqOfMap(m) == SeqOfMapFrom(m, DOMAIN m)

RECURSIVE MapOfSeqFrom(_, _, _)
MapOfSeqFrom(entries, i, m) ==
    IF i > Len(entries) THEN m
    ELSE MapOfSeqFrom(entries, i + 1, MapInsert(m, entries[i].key, entries[i].value))
\* the mapping a duplicate-free entry sequence denotes
MapOfSeq(entries) == MapOfSeqFrom(entries, 1, EmptyMap)

KeysOfSeq(entries) == {entries[i].key : i \in DOMAIN entries}
NoDuplicateKeys(entries) ==
    \A i, j \in DOMAIN entries : entries[i].key = entries[j].key => i = j

(***************************************************************************)
(* The shape table: the invocation of block_entity_types! / entity_types!. *)
(* A shape has own fields (name, optional flag, Rust type), at most one    *)
(* parent, at most one open extension ("with extras as <type>") and any    *)
(* number of compound types flattened into it ("flattened [...]").         *)
(* parent = "" and extra = "" mean "none".  The rows are the Sign and      *)
(* Banner shapes of the specification's scenarios, a two-level chain whose *)
(* leaf declares an open extension, a shape with a flattened compound      *)
(* type, that compound type (an invocation of                              *)
(* block_entity_compound_types!), and a small entity chain; BlockEntity    *)
(* and Entity are the roots and hold the identity fields.                  *)
(***************************************************************************)
Field(name, optional, type) == [name |-> name, optional |-> optional, type |-> type]

Shapes ==
    [ BlockEntity |->
        [parent |-> "", extra |-> "", flattened |-> <<>>,
         fields |-> <<Field("x", FALSE, "i32"), Field("y", FALSE, "i32"),
                      Field("z", FALSE, "i32")>>],
      SignBlockEntity |->
        [parent |-> "BlockEntity", extra |-> "", flattened |-> <<>>,
         fields |-> <<Field("Text1", FALSE, "CowStr")>>],
      BannerBlockEntity |->
        [parent |-> "BlockEntity", extra |-> "", flattened |-> <<>>,
         fields |-> <<Field("Text1", TRUE, "CowStr"), Field("Text2", TRUE, "CowStr")>>],
      BaseContainerBlockEntity |->
        [parent |-> "BlockEntity", extra |-> "", flattened |-> <<>>,
         fields |-> <<Field("Lock", TRUE, "CowStr")>>],
      ChestBlockEntity |->
        [parent |-> "BaseContainerBlockEntity", extra |-> "fastnbt::Value",
         flattened |-> <<>>,
         fields |-> <<>>],
      LockedChestBlockEntity |->
        [parent |-> "BaseContainerBlockEntity", extra |-> "", flattened |-> <<>>,
         fields |-> <<Field("Lock", FALSE, "CowStr")>>],
      LecternBlockEntity |->
        [parent |-> "BlockEntity", extra |-> "", flattened |-> <<"BookState">>,
         fields |-> <<>>],
      BookState |->
        [parent |-> "", extra |-> "", flattened |-> <<>>,
         fields |-> <<Field("Book", FALSE, "CowStr")>>],
      Entity |->
        [parent |-> "", extra |-> "", flattened |-> <<>>,
         fields |-> <<Field("UUID", FALSE, "u128"), Field("Air", FALSE, "i32")>>],
      Cow |->
        [parent |-> "Entity", extra |-> "", flattened |-> <<>>,
         fields |-> <<Field("InLove", TRUE, "i32")>>] ]

OwnFieldNames(shape) == {Shapes[shape].fields[i].name : i \in DOMAIN Shapes[shape].fields}
FieldOf(shape, key) ==
    LET i == CHOOSE j \in DOMAIN Shapes[shape].fields : Shapes[shape].fields[j].name = key
    IN Shapes[shape].fields[i]

RECURSIVE ChainFieldNames(_)
\* the names of the own fields of a shape and of all its ancestors
ChainFieldNames(shape) ==
    OwnFieldNames(shape) \cup
        (IF Shapes[shape].parent = "" THEN {} ELSE ChainFieldNames(Shapes[shape].parent))

RECURSIVE ChainRequiredNames(_)
ChainRequiredNames(shape) ==
    {f \in OwnFieldNames(shape) : ~FieldOf(shape, f).optional} \cup
        (IF Shapes[shape].parent = "" THEN {} ELSE ChainRequiredNames(Shapes[shape].parent))

RECURSIVE ChainFieldType(_, _)
ChainFieldType(shape, key) ==
    IF key \in OwnFieldNames(shape) THEN FieldOf(shape, key).type
    ELSE ChainFieldType(Shapes[shape].parent, key)

(***************************************************************************)
(* Deserialization of one field value into its Rust type and back.  A      *)
(* typed value is a record of the same layout whose kind is the Rust type. *)
(***************************************************************************)
\* does `v` deserialize as `type` (map.next_value::<type>() is Ok); the
\* values of the model have the kind the declared type serializes to, or a
\* kind no numeric conversion of serde relates to it
TypeAccepts(type, v) ==
    CASE type = "i32" -> v.kind = "Int"
      [] type = "CowStr" -> v.kind = "String"
      [] type = "u128" -> v.kind = "IntArray"
      [] OTHER -> v.kind # "None"

FromValue(type, v) ==
    CASE type = "i32" -> Val("i32", v.n, "")
      [] type = "CowStr" -> Val("CowStr", 0, v.s)
      [] type = "u128" -> Val("u128", v.n, "")
      [] OTHER -> v

\* fastnbt::to_value of a typed field value
ToValue(tv) ==
    CASE tv.kind = "i32" -> IntV(tv.n)
      [] tv.kind = "CowStr" -> StrV(tv.s)
      [] tv.kind = "u128" -> UuidV(tv.n)
      [] OTHER -> tv

(***************************************************************************)
(* Typed records.  `own` maps every own field name to its typed value      *)
(* (NoneVal for an absent optional field), `parent` is the parent record   *)
(* as a sequence of length 0 or 1, `extra` is the open-extension map       *)
(* (EmptyMap for a shape that declares none), `flattened` holds one record *)
(* for every flattened compound type.                                      *)
(***************************************************************************)
RecordWith(shape, own, parent, extra, flattened) ==
    [shape |-> shape, own |-> own, parent |-> parent, extra |-> extra,
     flattened |-> flattened]
Record(shape, own, parent, extra) == RecordWith(shape, own, parent, extra, <<>>)

DeOk(rec) == [ok |-> TRUE, rec |-> <<rec>>, err |-> ""]
DeErr(e) == [ok |-> FALSE, rec |-> <<>>, err |-> e]

RECURSIVE ShapeKeyLoop_KeepsOwn(_, _, _, _)
\* mutation: an entry claimed by an own field is pushed to __collect as well
ShapeKeyLoop_KeepsOwn(shape, entries, i, st) ==
    IF i > Len(entries) THEN st
    ELSE LET key == entries[i].key
             val == entries[i].value
         IN IF key \in OwnFieldNames(shape)
            THEN IF st.own[key] # NoneVal
                 THEN [st EXCEPT !.err = "duplicate_field"]
                 ELSE IF ~TypeAccepts(FieldOf(shape, key).type, val)
                      THEN [st EXCEPT !.err = "invalid_type"]
                      ELSE ShapeKeyLoop_KeepsOwn(shape, entries, i + 1,
                               [st EXCEPT !.own[key] = FromValue(FieldOf(shape, key).type, val),
                                          !.collect = Append(@, entries[i])])
            ELSE ShapeKeyLoop_KeepsOwn(shape, entries, i + 1,
                     [st EXCEPT !.collect = Append(@, entries[i])])

RECURSIVE ShapeKeyLoop(_, _, _, _)
\* the `while let Some(key) = map.next_key()?` loop of a shape's visit_map:
\* own fields are claimed by name, every other entry is pushed to __collect
ShapeKeyLoop(shape, entries, i, st) ==
    IF i > Len(entries) THEN st
    ELSE LET key == entries[i].key
             val == entries[i].value
         IN IF key \in OwnFieldNames(shape)
            THEN IF st.own[key] # NoneVal
                 THEN [st EXCEPT !.err = "duplicate_field"]
                 ELSE IF ~TypeAccepts(FieldOf(shape, key).type, val)
                      THEN [st EXCEPT !.err = "invalid_type"]
                      ELSE ShapeKeyLoop(shape, entries, i + 1,
                               [st EXCEPT !.own[key] = FromValue(FieldOf(shape, key).type, val)])
            ELSE ShapeKeyLoop(shape, entries, i + 1,
                     [st EXCEPT !.collect = Append(@, entries[i])])

\* mutation: a required field that was never set is not reported
MissingRequired_Never(shape, own) == {}

\* mutation: the absence check is applied to optional fields as well
MissingRequired_IgnoresOptional(shape, own) ==
    {f \in OwnFieldNames(shape) : own[f] = NoneVal}

\* block_entity_types!(@missing ...): a required field that was never set
MissingRequired(shape, own) ==
    {f \in OwnFieldNames(shape) : ~FieldOf(shape, f).optional /\ own[f] = NoneVal}

\* <HashMap<CowStr, $extras_type> as Deserialize>::deserialize over
\* FlatMapDeserializer(&mut __collect): every entry of __collect is visited
ExtraOk(type, collect) ==
    \A i \in DOMAIN collect : TypeAccepts(type, collect[i].value)
ExtraOf(type, collect) ==
    LET m == MapOfSeq(collect)
    IN [k \in DOMAIN m |-> FromValue(type, m[k])]

RECURSIVE DeserializeShape(_, _)
RECURSIVE DeserializeFlattened(_, _, _)
\* $flat_field: <$flat_type as Deserialize>::deserialize(FlatMapDeserializer(
\* &mut __collect)), for the flattened types from index i on: every one of
\* them visits all of __collect
DeserializeFlattened(types, collect, i) ==
    IF i > Len(types) THEN [ok |-> TRUE, recs |-> <<>>, err |-> ""]
    ELSE LET de == DeserializeShape(types[i], collect)
         IN IF ~de.ok THEN [ok |-> FALSE, recs |-> <<>>, err |-> de.err]
            ELSE LET rest == DeserializeFlattened(types, collect, i + 1)
                 IN IF ~rest.ok THEN rest
                    ELSE [ok |-> TRUE, recs |-> de.rec \o rest.recs, err |-> ""]

\* impl Deserialize for $name: visit_map over the entries of a compound
DeserializeShape(shape, entries) ==
    LET init == [own |-> [f \in OwnFieldNames(shape) |-> NoneVal],
                 collect |-> <<>>, err |-> ""]
        st == ShapeKeyLoop(shape, entries, 1, init)
        sh == Shapes[shape]
    IN IF st.err # "" THEN DeErr(st.err)
       ELSE IF MissingRequired(shape, st.own) # {} THEN DeErr("missing_field")
       ELSE LET par == IF sh.parent = "" THEN DeOk(<<>>)
                       ELSE DeserializeShape(sh.parent, st.collect)
            IN IF ~par.ok THEN DeErr(par.err)
               ELSE IF sh.extra # "" /\ ~ExtraOk(sh.extra, st.collect)
                    THEN DeErr("invalid_type")
                    ELSE LET fl == DeserializeFlattened(sh.flattened, st.collect, 1)
                         IN IF ~fl.ok THEN DeErr(fl.err)
                            ELSE DeOk(RecordWith(shape, st.own,
                                          IF sh.parent = "" THEN <<>> ELSE par.rec,
                                          IF sh.extra = "" THEN EmptyMap
                                          ELSE ExtraOf(sh.extra, st.collect),
                                          fl.recs))

\* fastnbt::from_value::<types::$type>(&Value::Compound(properties))
FromCompound(shape, properties) == DeserializeShape(shape, SeqOfMap(properties))

RECURSIVE InsertAll(_, _, _)
InsertAll(map, src, keys) ==
    IF keys = {} THEN map
    ELSE LET k == CHOOSE kk \in keys : TRUE
         IN InsertAll(MapInsert(map, k, ToValue(src[k])), src, keys \ {k})

RECURSIVE FlattenInto(_, _)
RECURSIVE FlattenAll(_, _, _)
\* self.$flat_field.flatten(map), for the flattened records from index i on
FlattenAll(recs, i, map) ==
    IF i > Len(recs) THEN map
    ELSE FlattenAll(recs, i + 1, FlattenInto(recs[i], map))

\* mutation: an absent optional field is inserted like a present one
FlattenInto_InsertsAbsent(rec, map) ==
    LET m1 == InsertAll(map, rec.own, DOMAIN rec.own)
        m2 == IF rec.parent = <<>> THEN m1 ELSE FlattenInto(rec.parent[1], m1)
        m3 == InsertAll(m2, rec.extra, DOMAIN rec.extra)
    IN FlattenAll(rec.flattened, 1, m3)

\* impl Flatten for $name: own fields that are present, then the parent,
\* then the entries of the open extension, then the flattened records, all
\* into the same map
FlattenInto(rec, map) ==
    LET present == {f \in DOMAIN rec.own : rec.own[f] # NoneVal}
        m1 == InsertAll(map, rec.own, present)
        m2 == IF rec.parent = <<>> THEN m1 ELSE FlattenInto(rec.parent[1], m1)
        m3 == InsertAll(m2, rec.extra, DOMAIN rec.extra)
    IN FlattenAll(rec.flattened, 1, m3)

\* crate::flatten::flatten
Flatten(rec) == FlattenInto(rec, EmptyMap)

(***************************************************************************)
(* Generic records and variants.                                           *)
(***************************************************************************)
BlockPos(x, y, z) == [x |-> x, y |-> y, z |-> z]
UVec3(x, y, z) == [x |-> x, y |-> y, z |-> z]

\* the largest i32
I32Max == 2147483647
\* i32::unsigned_abs: the absolute value as a u32; it cannot overflow, as
\* every |n| of an i32 is a u32
UnsignedAbs(n) == IF n < 0 THEN -n ELSE n

\* BlockPos::abs
BlockPosAbs(self) == UVec3(UnsignedAbs(self.x), UnsignedAbs(self.x), UnsignedAbs(self.x))
GenericBlockEntity(id, pos, properties) ==
    [id |-> id, pos |-> pos, properties |-> properties]
GenericEntity(id, uuid, properties) ==
    [id |-> id, uuid |-> uuid, properties |-> properties]

\* a value of the enum BlockEntity / Entity, or the Err of a Result
Typed(variant, rec) == [tag |-> "Typed", variant |-> variant, rec |-> <<rec>>,
                        generic |-> <<>>, err |-> ""]
Other(generic) == [tag |-> "Other", variant |-> "Other", rec |-> <<>>,
                   generic |-> <<generic>>, err |-> ""]
Err(e) == [tag |-> "Err", variant |-> "", rec |-> <<>>, generic |-> <<>>, err |-> e]
NoResult == [tag |-> "None", variant |-> "", rec |-> <<>>, generic |-> <<>>, err |-> ""]

(***************************************************************************)
(* The dispatch tables: the invocations of block_entities! and entities!   *)
(* as `cargo xtask codegen` writes them.                                   *)
(***************************************************************************)
RECURSIVE AllFields(_)
\* codegen_block_entities: the entry names of the variant's type and of
\* its ancestors, the type named BlockEntity excepted
AllFields(type) ==
    (IF type # "BlockEntity" THEN OwnFieldNames(type) ELSE {}) \cup
        (IF Shapes[type].parent = "" THEN {} ELSE AllFields(Shapes[type].parent))

TableEntry(id, variant, type) ==
    [id |-> id, variant |-> variant, type |-> type, fields |-> AllFields(type)]

BlockEntityTable ==
    << TableEntry("minecraft:sign", "Sign", "SignBlockEntity"),
       TableEntry("minecraft:banner", "Banner", "BannerBlockEntity"),
       TableEntry("minecraft:chest", "Chest", "ChestBlockEntity"),
       TableEntry("minecraft:lectern", "Lectern", "LecternBlockEntity") >>

EntityTable ==
    << TableEntry("minecraft:cow", "Cow", "Cow") >>

KnownIds(table) == {table[i].id : i \in DOMAIN table}
EntryOfId(table, id) == table[CHOOSE i \in DOMAIN table : table[i].id = id]
EntryOfVariant(table, variant) ==
    table[CHOOSE i \in DOMAIN table : table[i].variant = variant]

(***************************************************************************)
(* Deserialize for BlockEntity.                                            *)
(***************************************************************************)
RECURSIVE BlockEntityKeyLoop(_, _, _)
\* the key loop of visit_map: id, x, y and z go to their slots (a second
\* occurrence is an error), every other entry goes into `properties`
BlockEntityKeyLoop(entries, i, st) ==
    IF i > Len(entries) THEN st
    ELSE LET key == entries[i].key
             val == entries[i].value
         IN IF key \in {"id", "x", "y", "z"}
            THEN IF st.slots[key] # NoneVal
                 THEN [st EXCEPT !.err = "duplicate_field"]
                 ELSE IF ~TypeAccepts(IF key = "id" THEN "CowStr" ELSE "i32", val)
                      THEN [st EXCEPT !.err = "invalid_type"]
                      ELSE BlockEntityKeyLoop(entries, i + 1,
                               [st EXCEPT !.slots[key] =
                                   FromValue(IF key = "id" THEN "CowStr" ELSE "i32", val)])
            ELSE BlockEntityKeyLoop(entries, i + 1,
                     [st EXCEPT !.properties = MapInsert(@, key, val)])

\* properties.insert("x", Int(x)); ... ("y") ...; ("z") ...
InsertPos(properties, pos) ==
    MapInsert(MapInsert(MapInsert(properties, "x", IntV(pos.x)), "y", IntV(pos.y)),
              "z", IntV(pos.z))
\* mutation: the fallback forgets to remove "z"
RemovePos_KeepsZ(properties) == MapRemove(MapRemove(properties, "x"), "y")

\* properties.remove("x"); properties.remove("y"); properties.remove("z")
RemovePos(properties) == MapRemove(MapRemove(MapRemove(properties, "x"), "y"), "z")

\* mutation: the error of the typed decode is returned (`?`) instead of
\* being replaced by the Other variant
BlockEntityKnownArm_PropagatesError(entry, pos, properties) ==
    LET props == InsertPos(properties, pos)
        de == FromCompound(entry.type, props)
    IN IF de.ok THEN Typed(entry.variant, de.rec[1]) ELSE Err(de.err)

\* the known-id arm: typed decode, falling back to Other on any error
BlockEntityKnownArm(entry, pos, properties) ==
    LET props == InsertPos(properties, pos)
        de == FromCompound(entry.type, props)
    IN IF de.ok THEN Typed(entry.variant, de.rec[1])
       ELSE Other(GenericBlockEntity(entry.id, pos, RemovePos(props)))

\* mutation: the three keys x, y and z are not taken off the count
UnusedKeys_NoSubtraction(entry, props) ==
    Cardinality({k \in DOMAIN props : k \notin entry.fields})

\* mutation: no variant is ever skipped for leaving keys unused
UnusedKeys_AlwaysZero(entry, props) == 0

\* the number of keys of `properties` the variant's field list lacks, less
\* the three keys x, y and z
UnusedKeys(entry, props) ==
    Cardinality({k \in DOMAIN props : k \notin entry.fields}) - 3

RECURSIVE FirstDecoding(_, _, _)
\* the first row of `rows`, from index i on, that uses every key and
\* deserializes
FirstDecoding(rows, i, props) ==
    IF i > Len(rows) THEN <<>>
    ELSE LET de == FromCompound(rows[i].type, props)
         IN IF UnusedKeys(rows[i], props) <= 0 /\ de.ok
            THEN <<Typed(rows[i].variant, de.rec[1])>>
            ELSE FirstDecoding(rows, i + 1, props)

\* mutation: two passes, the rows whose chain has a required field beside
\* x, y and z before the rows whose chain has none
UntaggedLoop_RequiredFirst(table, i, props) ==
    LET HasRequired(row) == ChainRequiredNames(row.type) \ {"x", "y", "z"} # {}
        OptionalsOnly(row) == ~HasRequired(row)
    IN FirstDecoding(SelectSeq(table, HasRequired) \o SelectSeq(table, OptionalsOnly),
                     i, props)

RECURSIVE UntaggedLoop_LastMatch(_, _, _)
\* mutation: the loop keeps going after a match, so the last variant that
\* matches wins
UntaggedLoop_LastMatch(table, i, props) ==
    IF i > Len(table) THEN <<>>
    ELSE LET rest == UntaggedLoop_LastMatch(table, i + 1, props)
             de == FromCompound(table[i].type, props)
         IN IF rest # <<>> THEN rest
            ELSE IF UnusedKeys(table[i], props) <= 0 /\ de.ok
                 THEN <<Typed(table[i].variant, de.rec[1])>>
                 ELSE <<>>

RECURSIVE UntaggedLoop(_, _, _)
\* `for (unused_keys, _, closure) in variants`: the first variant, in table
\* order, that uses every key and deserializes; <<>> when there is none
UntaggedLoop(table, i, props) ==
    IF i > Len(table) THEN <<>>
    ELSE IF UnusedKeys(table[i], props) > 0 THEN UntaggedLoop(table, i + 1, props)
    ELSE LET de == FromCompound(table[i].type, props)
         IN IF de.ok THEN <<Typed(table[i].variant, de.rec[1])>>
            ELSE UntaggedLoop(table, i + 1, props)

\* mutation: the fallback leaves x, y and z among the properties
BlockEntityUntaggedArm_KeepsPos(table, pos, properties) ==
    LET props == InsertPos(properties, pos)
        found == UntaggedLoop(table, 1, props)
    IN IF found # <<>> THEN found[1]
       ELSE Other(GenericBlockEntity("", pos, props))

\* mutation: the loop misses the first row of the table
BlockEntityUntaggedArm_SkipsFirstRow(table, pos, properties) ==
    LET props == InsertPos(properties, pos)
        found == UntaggedLoop(table, 2, props)
    IN IF found # <<>> THEN found[1]
       ELSE Other(GenericBlockEntity("", pos, RemovePos(props)))

\* the `None` arm: untagged resolution, falling back to Other with id ""
BlockEntityUntaggedArm(table, pos, properties) ==
    LET props == InsertPos(properties, pos)
        found == UntaggedLoop(table, 1, props)
    IN IF found # <<>> THEN found[1]
       ELSE Other(GenericBlockEntity("", pos, RemovePos(props)))

\* mutation: an unknown id is resolved like a missing id before falling
\* back to Other
BlockEntityUnknownArm_TriesShapes(id, pos, properties) ==
    LET found == UntaggedLoop(BlockEntityTable, 1, InsertPos(properties, pos))
    IN IF found # <<>> THEN found[1]
       ELSE Other(GenericBlockEntity(id, pos, properties))

\* the unknown-id arm
BlockEntityUnknownArm(id, pos, properties) ==
    Other(GenericBlockEntity(id, pos, properties))

\* <BlockEntity as Deserialize>::deserialize, for the invocation of
\* block_entities! with the rows of `table`
DeserializeBlockEntity(table, entries) ==
    LET init == [slots |-> [k \in {"id", "x", "y", "z"} |-> NoneVal],
                 properties |-> EmptyMap, err |-> ""]
        st == BlockEntityKeyLoop(entries, 1, init)
    IN IF st.err # "" THEN Err(st.err)
       ELSE IF \E k \in {"x", "y", "z"} : st.slots[k] = NoneVal THEN Err("missing_field")
       ELSE LET pos == BlockPos(st.slots["x"].n, st.slots["y"].n, st.slots["z"].n)
                id == st.slots["id"]
            IN IF id = NoneVal
               THEN BlockEntityUntaggedArm(table, pos, st.properties)
               ELSE IF id.s \in KnownIds(table)
                    THEN BlockEntityKnownArm(EntryOfId(table, id.s), pos,
                                             st.properties)
                    ELSE BlockEntityUnknownArm(id.s, pos, st.properties)

(***************************************************************************)
(* Deserialize for Entity.                                                 *)
(***************************************************************************)
RECURSIVE EntityKeyLoop(_, _, _)
EntityKeyLoop(entries, i, st) ==
    IF i > Len(entries) THEN st
    ELSE LET key == entries[i].key
             val == entries[i].value
         IN IF key \in {"id", "UUID"}
            THEN IF st.slots[key] # NoneVal
                 THEN [st EXCEPT !.err = "duplicate_field"]
                 ELSE IF ~TypeAccepts(IF key = "id" THEN "CowStr" ELSE "u128", val)
                      THEN [st EXCEPT !.err = "invalid_type"]
                      ELSE EntityKeyLoop(entries, i + 1,
                               [st EXCEPT !.slots[key] =
                                   FromValue(IF key = "id" THEN "CowStr" ELSE "u128", val)])
            ELSE EntityKeyLoop(entries, i + 1,
                     [st EXCEPT !.properties = MapInsert(@, key, val)])

\* the known-id arm of entities!
EntityKnownArm(entry, uuid, properties) ==
    LET props == MapInsert(properties, "UUID", ToValue(Val("u128", uuid, "")))
        de == FromCompound(entry.type, props)
    IN IF de.ok THEN Typed(entry.variant, de.rec[1])
       ELSE Other(GenericEntity(entry.id, uuid, MapRemove(props, "UUID")))

\* the `_` arm of entities!
EntityUnknownArm(id, uuid, properties) == Other(GenericEntity(id, uuid, properties))

\* <Entity as Deserialize>::deserialize
DeserializeEntity(entries) ==
    LET init == [slots |-> [k \in {"id", "UUID"} |-> NoneVal],
                 properties |-> EmptyMap, err |-> ""]
        st == EntityKeyLoop(entries, 1, init)
    IN IF st.err # "" THEN Err(st.err)
       ELSE IF \E k \in {"id", "UUID"} : st.slots[k] = NoneVal THEN Err("missing_field")
       ELSE LET id == st.slots["id"].s
                uuid == st.slots["UUID"].n
            IN IF id \in KnownIds(EntityTable)
               THEN EntityKnownArm(EntryOfId(EntityTable, id), uuid, st.properties)
               ELSE EntityUnknownArm(id, uuid, st.properties)

(***************************************************************************)
(* BlockEntity::position.                                                  *)
(***************************************************************************)
RECURSIVE Indirection(_)
\* codegen_block_entities: the number of `>` of a row, one per step from
\* the row's type up to BlockEntity
Indirection(type) ==
    IF Shapes[type].parent = "" THEN 0 ELSE 1 + Indirection(Shapes[type].parent)

RECURSIVE ParentBlockEntity(_, _)
\* block_entities!(@parent_block_entity t > .. > BlockEntity): one .parent
\* per `>`
ParentBlockEntity(t, indirection) ==
    IF indirection = 1 THEN t.parent[1]
    ELSE ParentBlockEntity(t, indirection - 1).parent[1]

\* mutation: y and z are taken from each other's field
BlockEntityPosition_SwapsYZ(v) ==
    IF v.tag = "Typed"
    THEN LET root == ParentBlockEntity(v.rec[1], Indirection(v.rec[1].shape))
         IN BlockPos(root.own["x"].n, root.own["z"].n, root.own["y"].n)
    ELSE v.generic[1].pos

\* impl super::super::BlockEntity for BlockEntity: position
BlockEntityPosition(v) ==
    IF v.tag = "Typed"
    THEN LET root == ParentBlockEntity(v.rec[1], Indirection(v.rec[1].shape))
         IN BlockPos(root.own["x"].n, root.own["y"].n, root.own["z"].n)
    ELSE v.generic[1].pos

(***************************************************************************)
(* as_generic, PartialEq and Serialize.                                    *)
(***************************************************************************)
\* the `let Some(fastnbt::Value::Int(..)) = props.remove(..) else { panic!() }`
\* of BlockEntity::as_generic, and the two `expect`s of Entity::as_generic
AsGenericPanics(domain, v) ==
    /\ v.tag = "Typed"
    /\ LET props == Flatten(v.rec[1])
       IN IF domain = "block_entity"
          THEN \E k \in {"x", "y", "z"} : k \notin DOMAIN props \/ props[k].kind # "Int"
          ELSE "UUID" \notin DOMAIN props \/ props["UUID"].kind # "IntArray"

\* mutation: x, y and z are read but left among the properties
BlockEntityAsGeneric_KeepsPos(v) ==
    IF v.tag = "Typed"
    THEN LET props == Flatten(v.rec[1])
         IN GenericBlockEntity(EntryOfVariant(BlockEntityTable, v.variant).id,
                               BlockPos(props["x"].n, props["y"].n, props["z"].n),
                               props)
    ELSE v.generic[1]

\* BlockEntity::as_generic
BlockEntityAsGeneric(v) ==
    IF v.tag = "Typed"
    THEN LET props == Flatten(v.rec[1])
         IN GenericBlockEntity(EntryOfVariant(BlockEntityTable, v.variant).id,
                               BlockPos(props["x"].n, props["y"].n, props["z"].n),
                               RemovePos(props))
    ELSE v.generic[1]

\* mutation: the UUID is read but left among the properties
EntityAsGeneric_KeepsUuid(v) ==
    IF v.tag = "Typed"
    THEN LET props == Flatten(v.rec[1])
         IN GenericEntity(EntryOfVariant(EntityTable, v.variant).id,
                          FromValue("u128", props["UUID"]).n,
                          props)
    ELSE v.generic[1]

\* Entity::as_generic
EntityAsGeneric(v) ==
    IF v.tag = "Typed"
    THEN LET props == Flatten(v.rec[1])
         IN GenericEntity(EntryOfVariant(EntityTable, v.variant).id,
                          FromValue("u128", props["UUID"]).n,
                          MapRemove(props, "UUID"))
    ELSE v.generic[1]

\* #[derive(PartialEq)] of GenericBlockEntity
GenericBlockEntityEq(g, h) ==
    g.id = h.id /\ g.pos = h.pos /\ MapEq(g.properties, h.properties)

\* #[derive(PartialEq)] of GenericEntity
GenericEntityEq(g, h) ==
    g.id = h.id /\ g.uuid = h.uuid /\ MapEq(g.properties, h.properties)

\* impl PartialEq for BlockEntity
BlockEntityEq(a, b) == GenericBlockEntityEq(BlockEntityAsGeneric(a), BlockEntityAsGeneric(b))

\* impl PartialEq for Entity
EntityEq(a, b) == GenericEntityEq(EntityAsGeneric(a), EntityAsGeneric(b))

\* mutation: the id is written also when it is empty
SerializeGenericBlockEntity_AlwaysId(g) ==
    <<Entry("id", StrV(g.id)), Entry("x", IntV(g.pos.x)), Entry("y", IntV(g.pos.y)),
      Entry("z", IntV(g.pos.z))>> \o SeqOfMap(g.properties)

\* impl Serialize for GenericBlockEntity: id unless empty, x, y, z, then
\* every property
SerializeGenericBlockEntity(g) ==
    (IF g.id # "" THEN <<Entry("id", StrV(g.id))>> ELSE <<>>)
        \o <<Entry("x", IntV(g.pos.x)), Entry("y", IntV(g.pos.y)), Entry("z", IntV(g.pos.z))>>
        \o SeqOfMap(g.properties)

\* impl Serialize for GenericEntity: id, UUID, then every property
SerializeGenericEntity(g) ==
    <<Entry("id", StrV(g.id)), Entry("UUID", UuidV(g.uuid))>> \o SeqOfMap(g.properties)

\* impl Serialize for BlockEntity
SerializeBlockEntity(v) == SerializeGenericBlockEntity(BlockEntityAsGeneric(v))

\* impl Serialize for Entity
SerializeEntity(v) == SerializeGenericEntity(EntityAsGeneric(v))

(***************************************************************************)
(* Map colours (map_colors!).  A u32 is held as its four bytes, most       *)
(* significant first, so that the alpha byte 0xff fits.                    *)
(***************************************************************************)
\* the largest u8
U8Max == 255
\* `*self as u32` for a discriminant below 2^31
U32(n) == <<(n \div 16777216) % 256, (n \div 65536) % 256, (n \div 256) % 256, n % 256>>
\* 0xff000000 | w
OrAlpha(w) == <<U8Max, w[2], w[3], w[4]>>
\* mutation: the word is rotated to the right
RotateLeft8_Right(w) == <<w[4], w[1], w[2], w[3]>>
\* u32::rotate_left(8)
RotateLeft8(w) == <<w[2], w[3], w[4], w[1]>>
\* u32::to_be_bytes
ToBeBytes(w) == w
\* `e as u8`
AsU8(n) == n % 256

\* MapColor::packed_argb
PackedArgb(self) == IF self = 0 THEN U32(0) ELSE OrAlpha(U32(self))

\* MapColor::rgba
Rgba(self) == ToBeBytes(RotateLeft8(PackedArgb(self)))

\* MapColor::calc_rgba
CalcRgba(self, b) ==
    LET c == Rgba(self)
    IN <<AsU8((c[1] * b) \div 255), AsU8((c[2] * b) \div 255), AsU8((c[3] * b) \div 255),
         c[4]>>

(***************************************************************************)
(* Block states (blocks!).                                                 *)
(***************************************************************************)
\* a property type: bool, bounded_integer::BoundedU8<min, max> or an enum of
\* props
BoolType == [kind |-> "bool", min |-> 0, max |-> 1, enum |-> ""]
BoundedU8(min, max) == [kind |-> "BoundedU8", min |-> min, max |-> max, enum |-> ""]
EnumType(name) == [kind |-> "enum", min |-> 0, max |-> 0, enum |-> name]

\* prop_enums!: the variants of every property enum
PropEnums ==
    [ NoteBlockInstrument |-> {"Harp", "Banjo", "IronXylophone"},
      SlabType |-> {"Top", "Bottom", "Double"} ]
\* #[strum(serialize_all = "snake_case")]: the string of a variant
SnakeCase ==
    [ Harp |-> "harp", Banjo |-> "banjo", IronXylophone |-> "iron_xylophone",
      Top |-> "top", Bottom |-> "bottom", Double |-> "double" ]

\* a property value: a bool (n is 0 or 1), a bounded integer (n) or an enum
\* variant (s)
PropVal(type, n, s) == [type |-> type, n |-> n, s |-> s]

\* $prop.to_string()
PropToString(v) ==
    IF v.type.kind = "bool" THEN (IF v.n = 1 THEN "true" ELSE "false")
    ELSE IF v.type.kind = "BoundedU8" THEN ToString(v.n)
    ELSE SnakeCase[v.s]

\* <_>::from_str(val).ok(): the values whose string is `str` (none or one)
PropFromStr(type, str) ==
    IF type.kind = "bool"
    THEN {PropVal(type, n, "") : n \in {n \in {0, 1} : str = (IF n = 1 THEN "true" ELSE "false")}}
    ELSE IF type.kind = "BoundedU8"
    THEN {PropVal(type, n, "") : n \in {n \in type.min..type.max : ToString(n) = str}}
    ELSE {PropVal(type, 0, e) : e \in {e \in PropEnums[type.enum] : SnakeCase[e] = str}}

\* one `$prop: $type as $prop_str` of a row; prop_str! is the literal when
\* there is one and the identifier otherwise
Prop(prop, type, prop_str) == [prop |-> prop, type |-> type, prop_str |-> prop_str]
\* one row of blocks!
BlockRow(id, variant, map_color, props) ==
    [id |-> id, variant |-> variant, map_color |-> map_color, props |-> props]

\* the invocation of blocks!
Blocks ==
    << BlockRow("minecraft:air", "Air", "None", <<>>),
       BlockRow("minecraft:note_block", "NoteBlock", "Wood",
                <<Prop("instrument", EnumType("NoteBlockInstrument"), "instrument"),
                  Prop("note", BoundedU8(0, MaxNote), "note"),
                  Prop("powered", BoolType, "powered")>>),
       BlockRow("minecraft:oak_slab", "OakSlab", "Wood",
                <<Prop("r#type", EnumType("SlabType"), "type"),
                  Prop("waterlogged", BoolType, "waterlogged")>>) >>
BlockIds == {Blocks[i].id : i \in DOMAIN Blocks}
BlockRowOfId(id) == Blocks[CHOOSE i \in DOMAIN Blocks : Blocks[i].id = id]
BlockRowOfVariant(variant) == Blocks[CHOOSE i \in DOMAIN Blocks : Blocks[i].variant = variant]

\* GenericBlockState
GenericBlockState(name, properties) == [name |-> name, properties |-> properties]
\* a value of the enum BlockState, or the Err of a Result; the fields of a
\* typed variant are keyed by the property identifiers
TypedState(variant, fields) ==
    [tag |-> "Typed", variant |-> variant, fields |-> fields, generic |-> <<>>, err |-> ""]
OtherState(generic) ==
    [tag |-> "Other", variant |-> "Other", fields |-> EmptyMap, generic |-> <<generic>>,
     err |-> ""]
ErrState(e) == [tag |-> "Err", variant |-> "", fields |-> EmptyMap, generic |-> <<>>, err |-> e]
NoBlockState == [tag |-> "None", variant |-> "", fields |-> EmptyMap, generic |-> <<>>,
                 err |-> ""]

\* a value of the wire compound: a string, a compound of values, or an int
WireStr(str) == [kind |-> "String", s |-> str, map |-> EmptyMap]
WireMap(m) == [kind |-> "Compound", s |-> "", map |-> m]
WireInt == [kind |-> "Int", s |-> "", map |-> EmptyMap]
NoWire == [kind |-> "None", s |-> "", map |-> EmptyMap]

\* Deserialize of HashMap<CowStr, CowStr>: a compound whose values are all
\* strings
IsStringMap(v) == v.kind = "Compound" /\ \A k \in DOMAIN v.map : v.map[k].kind = "String"
StringMapOf(v) == [k \in DOMAIN v.map |-> v.map[k].s]

RECURSIVE BlockStateKeyLoop(_, _, _)
\* the key loop of visit_map: only Name and Properties are fields, a second
\* occurrence of either is an error
BlockStateKeyLoop(entries, i, st) ==
    IF i > Len(entries) THEN st
    ELSE LET key == entries[i].key
             val == entries[i].value
         IN IF key \notin {"Name", "Properties"} THEN [st EXCEPT !.err = "unknown_field"]
            ELSE IF st.slots[key] # NoWire THEN [st EXCEPT !.err = "duplicate_field"]
            ELSE IF key = "Name" /\ val.kind # "String" THEN [st EXCEPT !.err = "invalid_type"]
            ELSE IF key = "Properties" /\ ~IsStringMap(val)
                 THEN [st EXCEPT !.err = "invalid_type"]
            ELSE BlockStateKeyLoop(entries, i + 1, [st EXCEPT !.slots[key] = val])

\* mutation: a property that is missing or does not parse is left out of
\* the check
BlockArm_FirstPropOnly(row, name, properties) ==
    LET parsed(i) == IF row.props[i].prop_str \in DOMAIN properties
                     THEN PropFromStr(row.props[i].type, properties[row.props[i].prop_str])
                     ELSE {}
    IN IF row.props # <<>> /\ parsed(1) = {}
       THEN OtherState(GenericBlockState(name, properties))
       ELSE TypedState(row.variant,
                [f \in {row.props[i].prop : i \in DOMAIN row.props} |->
                    LET i == CHOOSE j \in DOMAIN row.props : row.props[j].prop = f
                    IN IF parsed(i) = {} THEN PropVal(row.props[i].type, 0, "")
                       ELSE CHOOSE v \in parsed(i) : TRUE])

\* blocks!(@block ..): every declared property is looked up and parsed; the
\* first one that is missing or does not parse makes the result Other
BlockArm(row, name, properties) ==
    LET parsed(i) == IF row.props[i].prop_str \in DOMAIN properties
                     THEN PropFromStr(row.props[i].type, properties[row.props[i].prop_str])
                     ELSE {}
    IN IF \E i \in DOMAIN row.props : parsed(i) = {}
       THEN OtherState(GenericBlockState(name, properties))
       ELSE TypedState(row.variant,
                [f \in {row.props[i].prop : i \in DOMAIN row.props} |->
                    LET i == CHOOSE j \in DOMAIN row.props : row.props[j].prop = f
                    IN CHOOSE v \in parsed(i) : TRUE])

\* mutation: an absent Name is read as the empty string
DeserializeBlockState_DefaultName(entries) ==
    LET st == BlockStateKeyLoop(entries, 1,
                  [slots |-> [Name |-> NoWire, Properties |-> NoWire], err |-> ""])
    IN IF st.err # "" THEN ErrState(st.err)
       ELSE LET name == st.slots["Name"].s
                properties == IF st.slots["Properties"] = NoWire THEN EmptyMap
                              ELSE StringMapOf(st.slots["Properties"])
            IN IF name \in BlockIds THEN BlockArm(BlockRowOfId(name), name, properties)
               ELSE OtherState(GenericBlockState(name, properties))

\* impl Deserialize for BlockState
DeserializeBlockState(entries) ==
    LET st == BlockStateKeyLoop(entries, 1,
                  [slots |-> [Name |-> NoWire, Properties |-> NoWire], err |-> ""])
    IN IF st.err # "" THEN ErrState(st.err)
       ELSE IF st.slots["Name"] = NoWire THEN ErrState("missing_field")
       ELSE LET name == st.slots["Name"].s
                properties == IF st.slots["Properties"] = NoWire THEN EmptyMap
                              ELSE StringMapOf(st.slots["Properties"])
            IN IF name \in BlockIds THEN BlockArm(BlockRowOfId(name), name, properties)
               ELSE OtherState(GenericBlockState(name, properties))

\* mutation: the key of a property is its identifier, not its prop_str
BlockStateAsGeneric_IdentKeys(v) ==
    IF v.tag = "Typed"
    THEN LET row == BlockRowOfVariant(v.variant)
         IN GenericBlockState(row.id,
                [k \in {row.props[i].prop : i \in DOMAIN row.props} |-> PropToString(v.fields[k])])
    ELSE v.generic[1]

\* BlockState::as_generic, with props!
BlockStateAsGeneric(v) ==
    IF v.tag = "Typed"
    THEN LET row == BlockRowOfVariant(v.variant)
         IN GenericBlockState(row.id,
                [k \in {row.props[i].prop_str : i \in DOMAIN row.props} |->
                    LET i == CHOOSE j \in DOMAIN row.props : row.props[j].prop_str = k
                    IN PropToString(v.fields[row.props[i].prop])])
    ELSE v.generic[1]

\* #[derive(Serialize)] #[serde(rename_all = "PascalCase")] of
\* GenericBlockState
SerializeGenericBlockState(g) ==
    <<Entry("Name", WireStr(g.name)),
      Entry("Properties", WireMap([k \in DOMAIN g.properties |-> StrV(g.properties[k])]))>>

\* impl Serialize for BlockState
SerializeBlockState(v) == SerializeGenericBlockState(BlockStateAsGeneric(v))

\* impl PartialEq for BlockState
BlockStateEq(a, b) == BlockStateAsGeneric(a) = BlockStateAsGeneric(b)

(***************************************************************************)
(* State.                                                                  *)
(***************************************************************************)
VARIABLES
    domain,     \* "block_entity" or "entity": which enum is decoded
    input,      \* the compound handed to deserialize, as its entry sequence
    pc,         \* "start", "decoded", "failed", "encoded" or "panicked"
    result,     \* what deserialize returned
    output,     \* the entry sequence serialize wrote
    record,     \* a typed record built directly from field values
    flat,       \* flatten(record)
    restored,   \* what deserializing the record's shape from `flat` returned
    va, vb, vc, \* three variants compared with ==
    verdict,    \* the outcomes of the comparisons
    table,      \* the rows block_entities! is invoked with, in order
    target,     \* the shape a compound is deserialized as directly
    pos,        \* a BlockPos
    vec,        \* the UVec3 BlockPos::abs returned
    color,      \* a MapColor, as its discriminant (0 is MapColor::None)
    brightness, \* the u8 handed to calc_rgba
    shade,      \* the four bytes a MapColor method returned
    state,      \* the compound handed to BlockState::deserialize, as its entries
    block,      \* what BlockState::deserialize returned
    wire,       \* the compound BlockState::serialize wrote
    reread      \* what BlockState::deserialize returned for `wire`

vars == <<domain, input, pc, result, output, record, flat, restored, va, vb, vc, verdict,
          table, target, pos, vec, color, brightness, shade, state, block, wire,
          reread>>
codecVars == <<domain, input, result, output>>
recordVars == <<record, flat, restored>>
eqVars == <<va, vb, vc, verdict>>
posVars == <<pos, vec>>
colorVars == <<color, brightness, shade>>
stateVars == <<state, block, wire, reread>>

NoRecord == Record("", EmptyMap, <<>>, EmptyMap)
NoVerdict == [ab |-> FALSE, ba |-> FALSE, bc |-> FALSE, ac |-> FALSE, aa |-> FALSE]

(***************************************************************************)
(* The inputs: compounds over the reserved keys, the field names of the    *)
(* shape table and one key no shape declares, each key absent or holding   *)
(* a value of the declared kind or of another kind.                        *)
(***************************************************************************)
Opt(k, v) == IF v = NoneVal THEN <<>> ELSE <<Entry(k, v)>>
Coords == {IntV(n) : n \in 0..MaxCoord}
Uuids == {UuidV(n) : n \in 1..MaxUuid}

BlockEntityInputs ==
    { Opt("Text1", t1) \o Opt("id", id) \o Opt("x", x) \o Opt("foo", foo) \o Opt("y", y)
          \o Opt("Lock", lock) \o Opt("z", z) \o Opt("Text2", t2) \o Opt("Book", book) :
        id \in {NoneVal, StrV(""), StrV("minecraft:sign"), StrV("minecraft:banner"),
                StrV("minecraft:chest"), StrV("minecraft:lectern"),
                StrV("mod:custom_block"), IntV(0)},
        book \in {NoneVal, StrV("tome"), IntV(0)},
        x \in {NoneVal, StrV("hi")} \cup Coords,
        y \in {NoneVal, IntV(MaxCoord)},
        z \in {NoneVal, IntV(0)},
        t1 \in {NoneVal, StrV("hi"), IntV(0)},
        t2 \in {NoneVal, StrV("bye"), IntV(0)},
        lock \in {NoneVal, StrV("key")},
        foo \in {NoneVal, IntV(1), NaNV} }

EntityInputs ==
    { Opt("Air", air) \o Opt("id", id) \o Opt("foo", foo) \o Opt("UUID", uuid)
          \o Opt("InLove", love) :
        id \in {NoneVal, StrV(""), StrV("minecraft:cow"), StrV("mod:custom_mob")},
        uuid \in {NoneVal, StrV("hi")} \cup Uuids,
        air \in {NoneVal, IntV(0), StrV("hi")},
        love \in {NoneVal, IntV(1), StrV("hi")},
        foo \in {NoneVal, IntV(1), NaNV} }

IdleCodec ==
    /\ domain = "none" /\ input = <<>>
    /\ result = NoResult /\ output = <<>>
    /\ table = BlockEntityTable
IdleRecord == record = NoRecord /\ flat = EmptyMap /\ restored = DeErr("")
IdleEq == va = NoResult /\ vb = NoResult /\ vc = NoResult /\ verdict = NoVerdict
IdleShape == target = ""
IdlePos == pos = BlockPos(0, 0, 0) /\ vec = UVec3(0, 0, 0)
IdleColor == color = 0 /\ brightness = 0 /\ shade = <<0, 0, 0, 0>>
IdleState == state = <<>> /\ block = NoBlockState /\ wire = <<>> /\ reread = NoBlockState

Init ==
    /\ \/ domain = "block_entity" /\ input \in BlockEntityInputs
       \/ domain = "entity" /\ input \in EntityInputs
    /\ pc = "start"
    /\ result = NoResult
    /\ output = <<>>
    /\ IdleRecord
    /\ IdleEq
    /\ table = BlockEntityTable
    /\ IdleShape
    /\ IdlePos /\ IdleColor /\ IdleState

\* fastnbt::from_value::<BlockEntity>(input)
DecodeBlockEntity ==
    /\ pc = "start" /\ domain = "block_entity"
    /\ result' = DeserializeBlockEntity(table, input)
    /\ pc' = IF result'.tag = "Err" THEN "failed" ELSE "decoded"
    /\ UNCHANGED <<domain, input, output, recordVars, eqVars, table, target, posVars, colorVars, stateVars>>

\* fastnbt::from_value::<Entity>(input)
DecodeEntity ==
    /\ pc = "start" /\ domain = "entity"
    /\ result' = DeserializeEntity(input)
    /\ pc' = IF result'.tag = "Err" THEN "failed" ELSE "decoded"
    /\ UNCHANGED <<domain, input, output, recordVars, eqVars, table, target, posVars, colorVars, stateVars>>

\* fastnbt::to_value(&result) for a BlockEntity
EncodeBlockEntity ==
    /\ pc = "decoded" /\ domain = "block_entity"
    /\ IF AsGenericPanics(domain, result)
       THEN pc' = "panicked" /\ output' = output
       ELSE pc' = "encoded" /\ output' = SerializeBlockEntity(result)
    /\ UNCHANGED <<domain, input, result, recordVars, eqVars, table, target, posVars, colorVars, stateVars>>

\* fastnbt::to_value(&result) for an Entity
EncodeEntity ==
    /\ pc = "decoded" /\ domain = "entity"
    /\ IF AsGenericPanics(domain, result)
       THEN pc' = "panicked" /\ output' = output
       ELSE pc' = "encoded" /\ output' = SerializeEntity(result)
    /\ UNCHANGED <<domain, input, result, recordVars, eqVars, table, target, posVars, colorVars, stateVars>>

Next == DecodeBlockEntity \/ DecodeEntity \/ EncodeBlockEntity \/ EncodeEntity

Spec == Init /\ [][Next]_vars

(***************************************************************************)
(* Typed records built directly from field values, flattened and then      *)
(* deserialized again.                                                     *)
(***************************************************************************)
I32s == {Val("i32", n, "") : n \in 0..MaxCoord}
RootBlockEntities ==
    { Record("BlockEntity", [x |-> a, y |-> b, z |-> Val("i32", 0, "")], <<>>, EmptyMap) :
        a \in I32s, b \in I32s }
SignRecords ==
    { Record("SignBlockEntity", [Text1 |-> Val("CowStr", 0, t)], <<p>>, EmptyMap) :
        t \in {"hi", "bye"}, p \in RootBlockEntities }
BannerRecords ==
    { Record("BannerBlockEntity", [Text1 |-> t1, Text2 |-> t2], <<p>>, EmptyMap) :
        t1 \in {NoneVal, Val("CowStr", 0, "hi")},
        t2 \in {NoneVal, Val("CowStr", 0, "bye")},
        p \in RootBlockEntities }
ContainerRecords ==
    { Record("BaseContainerBlockEntity", [Lock |-> l], <<p>>, EmptyMap) :
        l \in {NoneVal, Val("CowStr", 0, "key")}, p \in RootBlockEntities }
ChestRecords ==
    { Record("ChestBlockEntity", EmptyMap, <<p>>, e) :
        p \in ContainerRecords,
        e \in {EmptyMap, [foo |-> IntV(1)], [foo |-> NaNV]} }
LecternRecords ==
    { RecordWith("LecternBlockEntity", EmptyMap, <<p>>, EmptyMap,
                 <<Record("BookState", [Book |-> Val("CowStr", 0, b)], <<>>, EmptyMap)>>) :
        b \in {"tome", "atlas"}, p \in RootBlockEntities }
RootEntities ==
    { Record("Entity", [UUID |-> Val("u128", u, ""), Air |-> a], <<>>, EmptyMap) :
        u \in 1..MaxUuid, a \in I32s }
CowRecords ==
    { Record("Cow", [InLove |-> l], <<p>>, EmptyMap) :
        l \in {NoneVal, Val("i32", 1, "")}, p \in RootEntities }

Records == RootBlockEntities \cup SignRecords \cup BannerRecords \cup ContainerRecords
               \cup ChestRecords \cup LecternRecords \cup RootEntities \cup CowRecords

InitRecord ==
    /\ IdleCodec
    /\ IdleEq
    /\ IdleShape /\ IdlePos /\ IdleColor /\ IdleState
    /\ pc = "built"
    /\ record \in Records
    /\ flat = EmptyMap
    /\ restored = DeErr("")

\* crate::flatten::flatten(&record)
FlattenRecord ==
    /\ pc = "built"
    /\ flat' = Flatten(record)
    /\ pc' = "flattened"
    /\ UNCHANGED <<codecVars, record, restored, eqVars, table, target, posVars, colorVars, stateVars>>

\* fastnbt::from_value::<$name>(&Value::Compound(flat))
UnflattenRecord ==
    /\ pc = "flattened"
    /\ restored' = FromCompound(record.shape, flat)
    /\ pc' = "restored"
    /\ UNCHANGED <<codecVars, record, flat, eqVars, table, target, posVars, colorVars, stateVars>>

NextRecord == FlattenRecord \/ UnflattenRecord

SpecRecord == InitRecord /\ [][NextRecord]_vars

(***************************************************************************)
(* Block-entity variants compared with ==.                                 *)
(***************************************************************************)
EqSignRecords == {r \in SignRecords : r.parent[1].own["y"].n = 0}
EqGenerics ==
    { GenericBlockEntity(id, BlockPos(x, 0, 0), props) :
        id \in {"minecraft:sign", ""},
        x \in 0..MaxCoord,
        props \in {EmptyMap, [Text1 |-> StrV("hi")], [Text1 |-> StrV("bye")],
                   [foo |-> NaNV]} }
EqVariants == {Typed("Sign", r) : r \in EqSignRecords} \cup {Other(g) : g \in EqGenerics}

InitEq ==
    /\ IdleCodec
    /\ IdleRecord
    /\ IdleShape /\ IdlePos /\ IdleColor /\ IdleState
    /\ pc = "built"
    /\ va \in EqVariants /\ vb \in EqVariants /\ vc \in EqVariants
    /\ verdict = NoVerdict

\* a == b, b == a, b == c, a == c and a == a
CompareVariants ==
    /\ pc = "built"
    /\ verdict' = [ab |-> BlockEntityEq(va, vb), ba |-> BlockEntityEq(vb, va),
                   bc |-> BlockEntityEq(vb, vc), ac |-> BlockEntityEq(va, vc),
                   aa |-> BlockEntityEq(va, va)]
    /\ pc' = "compared"
    /\ UNCHANGED <<codecVars, recordVars, va, vb, vc, table, target, posVars, colorVars, stateVars>>

NextEq == CompareVariants

SpecEq == InitEq /\ [][NextEq]_vars

(***************************************************************************)
(* Block-entity variants built directly, encoded and decoded again.        *)
(***************************************************************************)
BuiltTyped ==
    { Typed(BlockEntityTable[i].variant, r) :
        i \in DOMAIN BlockEntityTable,
        r \in {q \in Records : q.shape \in {BlockEntityTable[j].type :
                                              j \in DOMAIN BlockEntityTable}} }
BuiltGenerics ==
    { GenericBlockEntity(id, BlockPos(x, MaxCoord, 0), props) :
        id \in {"", "minecraft:sign", "mod:custom_block"},
        x \in 0..MaxCoord,
        props \in {EmptyMap, [Text1 |-> StrV("hi")], [foo |-> IntV(1)], [foo |-> NaNV],
                   [Text1 |-> IntV(0), Lock |-> StrV("key")]} }
BuiltVariants ==
    {v \in BuiltTyped : v.rec[1].shape = EntryOfVariant(BlockEntityTable, v.variant).type}
        \cup {Other(g) : g \in BuiltGenerics}

InitStable ==
    /\ domain = "block_entity" /\ input = <<>>
    /\ result = NoResult /\ output = <<>>
    /\ table = BlockEntityTable
    /\ IdleRecord /\ IdleShape /\ IdlePos /\ IdleColor /\ IdleState
    /\ pc = "built"
    /\ va \in BuiltVariants
    /\ vb = NoResult /\ vc = NoResult /\ verdict = NoVerdict

\* fastnbt::to_value(&va)
EncodeVariant ==
    /\ pc = "built" /\ domain = "block_entity"
    /\ IF AsGenericPanics(domain, va)
       THEN pc' = "panicked" /\ output' = output
       ELSE pc' = "sent" /\ output' = SerializeBlockEntity(va)
    /\ UNCHANGED <<domain, input, result, recordVars, eqVars, table, target, posVars, colorVars,
                   stateVars>>

\* fastnbt::from_value::<BlockEntity>(output)
DecodeOutput ==
    /\ pc = "sent"
    /\ result' = DeserializeBlockEntity(table, output)
    /\ pc' = "returned"
    /\ UNCHANGED <<domain, input, output, recordVars, eqVars, table, target, posVars, colorVars,
                   stateVars>>

NextStable == EncodeVariant \/ DecodeOutput

SpecStable == InitStable /\ [][NextStable]_vars

(***************************************************************************)
(* Compounds without id decoded under every order in which the rows of     *)
(* the dispatch table can be handed to block_entities!.                    *)
(***************************************************************************)
RowOrders ==
    LET n == Len(BlockEntityTable)
        orders == {q \in [1..n -> 1..n] : \A i, j \in 1..n : q[i] = q[j] => i = j}
    IN {[i \in 1..n |-> BlockEntityTable[q[i]]] : q \in orders}

UntaggedInputs ==
    {in \in BlockEntityInputs :
        /\ "id" \notin KeysOfSeq(in)
        /\ \A k \in {"x", "y", "z"} :
              \E i \in DOMAIN in : in[i].key = k /\ in[i].value.kind = "Int"}

InitTable ==
    /\ domain = "block_entity" /\ input \in UntaggedInputs
    /\ table \in RowOrders
    /\ pc = "start"
    /\ result = NoResult
    /\ output = <<>>
    /\ IdleRecord /\ IdleEq /\ IdleShape /\ IdlePos /\ IdleColor /\ IdleState

NextTable == DecodeBlockEntity \/ EncodeBlockEntity

SpecTable == InitTable /\ [][NextTable]_vars

(***************************************************************************)
(* A shape deserialized directly from a compound: fastnbt::from_value of   *)
(* one of the structs of block_entity_types!, block_entity_compound_types! *)
(* or entity_types!.  The compound is an entry sequence in which one key   *)
(* may occur twice.                                                        *)
(***************************************************************************)
BlockEntityShapes ==
    {"BlockEntity", "SignBlockEntity", "BannerBlockEntity", "BaseContainerBlockEntity",
     "ChestBlockEntity", "LecternBlockEntity", "BookState"}
EntityShapes == {"Entity", "Cow"}

Repeated ==
    {<<>>, <<Entry("Text1", StrV("bye"))>>, <<Entry("x", IntV(0))>>,
     <<Entry("Lock", StrV("key"))>>, <<Entry("foo", IntV(1))>>,
     <<Entry("Book", StrV("atlas"))>>}

ShapeInputs ==
    { Opt("Text1", t1) \o Opt("x", x) \o Opt("foo", foo) \o Opt("y", y)
          \o Opt("Lock", lock) \o Opt("z", IntV(0)) \o Opt("Text2", t2)
          \o Opt("Book", book) \o again :
        x \in {NoneVal, StrV("hi"), IntV(MaxCoord)},
        y \in {NoneVal, IntV(0)},
        t1 \in {NoneVal, StrV("hi"), IntV(0)},
        t2 \in {NoneVal, StrV("bye"), IntV(0)},
        lock \in {NoneVal, StrV("key")},
        foo \in {NoneVal, IntV(1)},
        book \in {NoneVal, StrV("tome"), IntV(0)},
        again \in Repeated }

InitShape ==
    /\ \/ target \in BlockEntityShapes /\ input \in ShapeInputs
       \/ target \in EntityShapes /\ input \in EntityInputs
    /\ domain = "none"
    /\ pc = "start"
    /\ result = NoResult /\ output = <<>>
    /\ table = BlockEntityTable
    /\ IdleRecord /\ IdleEq /\ IdlePos /\ IdleColor /\ IdleState

\* fastnbt::from_value::<types::$name>(input)
UnflattenShape ==
    /\ pc = "start" /\ target # ""
    /\ restored' = DeserializeShape(target, input)
    /\ pc' = "unflattened"
    /\ UNCHANGED <<codecVars, record, flat, eqVars, table, target, posVars, colorVars, stateVars>>

NextShape == UnflattenShape

SpecShape == InitShape /\ [][NextShape]_vars

(***************************************************************************)
(* Shapes with a parent, deserialized directly; LockedChestBlockEntity     *)
(* declares a field under a name its parent declares too.                  *)
(***************************************************************************)
BlockEntityChains ==
    {"SignBlockEntity", "BannerBlockEntity", "BaseContainerBlockEntity", "ChestBlockEntity",
     "LecternBlockEntity", "LockedChestBlockEntity"}
EntityChains == {"Cow"}

InitChain ==
    /\ \/ target \in BlockEntityChains /\ input \in ShapeInputs
       \/ target \in EntityChains /\ input \in EntityInputs
    /\ domain = "none"
    /\ pc = "start"
    /\ result = NoResult /\ output = <<>>
    /\ table = BlockEntityTable
    /\ IdleRecord /\ IdleEq /\ IdlePos /\ IdleColor /\ IdleState

NextChain == UnflattenShape

SpecChain == InitChain /\ [][NextChain]_vars

(***************************************************************************)
(* Block entities and entities decoded from compounds in which one key     *)
(* occurs twice, as a deserializer that reads a byte stream can hand them  *)
(* to visit_map.                                                           *)
(***************************************************************************)
RepeatedBlockEntityInputs ==
    { Opt("id", id) \o <<Entry("x", x), Entry("y", IntV(MaxCoord)), Entry("z", IntV(0))>>
          \o Opt("Text1", t1) \o Opt("Lock", lock) \o Opt("Book", book) \o again :
        id \in {NoneVal, StrV("minecraft:sign"), StrV("minecraft:banner"),
                StrV("minecraft:chest"), StrV("minecraft:lectern"),
                StrV("mod:custom_block")},
        x \in Coords,
        t1 \in {NoneVal, StrV("hi")},
        lock \in {NoneVal, StrV("key")},
        book \in {NoneVal, StrV("tome")},
        again \in (Repeated \ {<<>>}) \cup {<<Entry("id", StrV("minecraft:sign"))>>} }

RepeatedEntityInputs ==
    { <<Entry("id", id), Entry("UUID", uuid)>> \o Opt("Air", air) \o Opt("InLove", love)
          \o again :
        id \in {StrV("minecraft:cow"), StrV("mod:custom_mob")},
        uuid \in Uuids,
        air \in {NoneVal, IntV(0)},
        love \in {NoneVal, IntV(1)},
        again \in {<<Entry("id", StrV("minecraft:cow"))>>, <<Entry("UUID", UuidV(1))>>,
                   <<Entry("Air", IntV(1))>>, <<Entry("InLove", IntV(0))>>} }

InitRepeated ==
    /\ \/ domain = "block_entity" /\ input \in RepeatedBlockEntityInputs
       \/ domain = "entity" /\ input \in RepeatedEntityInputs
    /\ pc = "start"
    /\ result = NoResult
    /\ output = <<>>
    /\ table = BlockEntityTable
    /\ IdleRecord /\ IdleEq /\ IdleShape /\ IdlePos /\ IdleColor /\ IdleState

SpecRepeated == InitRepeated /\ [][Next]_vars

(***************************************************************************)
(* Positions converted with BlockPos::abs.                                 *)
(***************************************************************************)
PosComponents == (-MaxAbs..MaxAbs) \cup {-I32Max, I32Max}
Positions == {BlockPos(x, y, z) : x \in PosComponents, y \in PosComponents, z \in PosComponents}

InitPos ==
    /\ IdleCodec /\ IdleRecord /\ IdleEq /\ IdleShape /\ IdleColor /\ IdleState
    /\ pc = "positioned"
    /\ pos \in Positions
    /\ vec = UVec3(0, 0, 0)

\* vec = pos.abs()
Abs ==
    /\ pc = "positioned"
    /\ vec' = BlockPosAbs(pos)
    /\ pc' = "converted"
    /\ UNCHANGED <<codecVars, recordVars, eqVars, table, target, pos, colorVars, stateVars>>

NextPos == Abs

SpecPos == InitPos /\ [][NextPos]_vars

(***************************************************************************)
(* Map colours converted with packed_argb, rgba and calc_rgba.             *)
(***************************************************************************)
\* the values a colour channel takes
Channels == {0, 1, 127, 200, U8Max}
\* the rows of map_colors!: every colour but None, as its 24-bit RGB value
MapColors == {r * 65536 + g * 256 + b : r \in Channels, g \in Channels, b \in Channels} \ {0}

InitColor ==
    /\ IdleCodec /\ IdleRecord /\ IdleEq /\ IdleShape /\ IdlePos /\ IdleState
    /\ pc = "colored"
    /\ color \in MapColors \cup {0}
    /\ brightness \in 0..U8Max
    /\ shade = <<0, 0, 0, 0>>

\* shade = color.packed_argb()
CallPackedArgb ==
    /\ pc = "colored"
    /\ shade' = PackedArgb(color)
    /\ pc' = "packed"
    /\ UNCHANGED <<codecVars, recordVars, eqVars, table, target, posVars, color, brightness,
                   stateVars>>

\* shade = color.rgba()
CallRgba ==
    /\ pc = "colored"
    /\ shade' = Rgba(color)
    /\ pc' = "rgba"
    /\ UNCHANGED <<codecVars, recordVars, eqVars, table, target, posVars, color, brightness,
                   stateVars>>

\* shade = color.calc_rgba(brightness)
CallCalcRgba ==
    /\ pc = "colored"
    /\ shade' = CalcRgba(color, brightness)
    /\ pc' = "calculated"
    /\ UNCHANGED <<codecVars, recordVars, eqVars, table, target, posVars, color, brightness,
                   stateVars>>

NextColor == CallPackedArgb \/ CallRgba \/ CallCalcRgba

SpecColor == InitColor /\ [][NextColor]_vars

(***************************************************************************)
(* Block states decoded from compounds and encoded again.                  *)
(***************************************************************************)
OptProp(k, v) == IF v = NoneVal THEN EmptyMap ELSE [kk \in {k} |-> v]
\* the union of maps with disjoint key sets
Merge(a, b) == [k \in DOMAIN a \cup DOMAIN b |-> IF k \in DOMAIN a THEN a[k] ELSE b[k]]
Notes == {StrV(ToString(n)) : n \in 0..MaxNote}
PropertyMaps ==
    { Merge(OptProp("instrument", instrument), Merge(OptProp("note", note),
      Merge(OptProp("powered", powered), Merge(OptProp("type", type),
      Merge(OptProp("waterlogged", waterlogged), OptProp("foo", foo)))))) :
        instrument \in {NoneVal, StrV("banjo"), StrV("iron_xylophone"), StrV("Banjo")},
        note \in {NoneVal, StrV(ToString(MaxNote + 1)), StrV("x")} \cup Notes,
        powered \in {NoneVal, StrV("true"), StrV("1")},
        type \in {NoneVal, StrV("double"), StrV("Double")},
        waterlogged \in {NoneVal, StrV("false")},
        foo \in {NoneVal, StrV("bar"), IntV(1)} }
WireNames ==
    {NoWire, WireInt, WireStr("minecraft:air"), WireStr("minecraft:note_block"),
     WireStr("minecraft:oak_slab"), WireStr("modded:gear")}
WireProperties == {NoWire, WireInt} \cup {WireMap(m) : m \in PropertyMaps}
OptWire(k, v) == IF v = NoWire THEN <<>> ELSE <<Entry(k, v)>>
StateInputs ==
    { IF nameFirst
      THEN OptWire("Name", name) \o OptWire("Properties", properties) \o OptWire(k, more)
      ELSE OptWire("Properties", properties) \o OptWire("Name", name) \o OptWire(k, more) :
        name \in WireNames, properties \in WireProperties, nameFirst \in BOOLEAN,
        k \in {"Name", "Properties", "Palette"}, more \in {NoWire, WireStr("minecraft:air")} }

InitState ==
    /\ IdleCodec /\ IdleRecord /\ IdleEq /\ IdleShape /\ IdlePos /\ IdleColor
    /\ pc = "stated"
    /\ state \in StateInputs
    /\ block = NoBlockState /\ wire = <<>> /\ reread = NoBlockState

\* fastnbt::from_value::<BlockState>(state)
DecodeBlockState ==
    /\ pc = "stated"
    /\ block' = DeserializeBlockState(state)
    /\ pc' = IF block'.tag = "Err" THEN "rejected" ELSE "read"
    /\ UNCHANGED <<codecVars, recordVars, eqVars, table, target, posVars, colorVars, state,
                   wire, reread>>

\* fastnbt::to_value(&block)
EncodeBlockState ==
    /\ pc \in {"read", "built"}
    /\ wire' = SerializeBlockState(block)
    /\ pc' = IF pc = "read" THEN "written" ELSE "sent"
    /\ UNCHANGED <<codecVars, recordVars, eqVars, table, target, posVars, colorVars, state,
                   block, reread>>

NextState == DecodeBlockState \/ EncodeBlockState

SpecState == InitState /\ [][NextState]_vars

(***************************************************************************)
(* Block states built directly, encoded and decoded again.                 *)
(***************************************************************************)
\* the values of a property type
PropValues(type) ==
    IF type.kind = "bool" THEN {PropVal(type, n, "") : n \in {0, 1}}
    ELSE IF type.kind = "BoundedU8" THEN {PropVal(type, n, "") : n \in type.min..type.max}
    ELSE {PropVal(type, 0, e) : e \in PropEnums[type.enum]}
\* every value of the typed variant of a row
TypedStatesOf(row) ==
    { TypedState(row.variant, fields) :
        fields \in { f \in [{row.props[i].prop : i \in DOMAIN row.props} ->
                              UNION {PropValues(row.props[i].type) : i \in DOMAIN row.props}] :
                       \A i \in DOMAIN row.props :
                           f[row.props[i].prop].type = row.props[i].type } }
TypedStates == UNION {TypedStatesOf(Blocks[i]) : i \in DOMAIN Blocks}
OtherStates ==
    { OtherState(GenericBlockState(name, properties)) :
        name \in {"minecraft:air", "minecraft:oak_slab", "modded:gear", ""},
        properties \in { [k \in DOMAIN m |-> m[k].s] :
                           m \in { Merge(OptProp("type", type), OptProp("waterlogged", w)) :
                                     type \in {NoneVal, StrV("top")},
                                     w \in {NoneVal, StrV("true"), StrV("yes")} } } }

InitBuilt ==
    /\ IdleCodec /\ IdleRecord /\ IdleEq /\ IdleShape /\ IdlePos /\ IdleColor
    /\ pc = "built"
    /\ state = <<>>
    /\ block \in TypedStates \cup OtherStates
    /\ wire = <<>> /\ reread = NoBlockState

\* fastnbt::from_value::<BlockState>(wire)
RereadBlockState ==
    /\ pc = "sent"
    /\ reread' = DeserializeBlockState(wire)
    /\ pc' = "reread"
    /\ UNCHANGED <<codecVars, recordVars, eqVars, table, target, posVars, colorVars, state,
                   block, wire>>

NextBuilt == EncodeBlockState \/ RereadBlockState

SpecBuilt == InitBuilt /\ [][NextBuilt]_vars

(***************************************************************************)
(* The three decoders side by side: a compound is decoded as a block       *)
(* entity, as an entity or as a block state.                               *)
(***************************************************************************)
InitDecoders == Init \/ InitState

NextDecoders == DecodeBlockEntity \/ DecodeEntity \/ DecodeBlockState

SpecDecoders == InitDecoders /\ [][NextDecoders]_vars

(***************************************************************************)
(* Vocabulary of the properties, read off the input compound itself.       *)
(***************************************************************************)
InputKeys == KeysOfSeq(input)
InputAt(k) == input[CHOOSE i \in DOMAIN input : input[i].key = k].value
ReservedKeys == IF domain = "block_entity" THEN {"id", "x", "y", "z"} ELSE {"id", "UUID"}
\* the input mapping minus the reserved identity keys
InputProps == [k \in InputKeys \ ReservedKeys |-> InputAt(k)]
\* the input mapping minus the tag key
InputFlat == [k \in InputKeys \ {"id"} |-> InputAt(k)]
Table == IF domain = "block_entity" THEN BlockEntityTable ELSE EntityTable

HasTag == "id" \in InputKeys /\ InputAt("id").kind = "String"
KnownTag == HasTag /\ InputAt("id").s \in KnownIds(Table)
UnknownTag == HasTag /\ InputAt("id").s \notin KnownIds(Table)
ValidIdentity ==
    IF domain = "block_entity"
    THEN \A k \in {"x", "y", "z"} : k \in InputKeys /\ InputAt(k).kind = "Int"
    ELSE "UUID" \in InputKeys /\ InputAt("UUID").kind = "IntArray"
TagShape == EntryOfId(Table, InputAt("id").s).type
Decoded == pc \in {"decoded", "failed", "encoded", "panicked"}

\* the generic record that holds the input verbatim under tag `id`
InputAsGeneric(id) ==
    IF domain = "block_entity"
    THEN GenericBlockEntity(id, BlockPos(InputAt("x").n, InputAt("y").n, InputAt("z").n),
                            InputProps)
    ELSE GenericEntity(id, InputAt("UUID").n, InputProps)

\* two entry sequences denote the same mapping
SameMapping(a, b) ==
    /\ NoDuplicateKeys(a) /\ NoDuplicateKeys(b)
    /\ {a[i] : i \in DOMAIN a} = {b[i] : i \in DOMAIN b}

RECURSIVE DeclaredFields(_)
\* the fields a shape declares: its own, those of its ancestors and those
\* of the compound types flattened into any of them
DeclaredFields(shape) ==
    LET sh == Shapes[shape]
    IN {sh.fields[i] : i \in DOMAIN sh.fields}
           \cup (IF sh.parent = "" THEN {} ELSE DeclaredFields(sh.parent))
           \cup UNION {DeclaredFields(sh.flattened[j]) : j \in DOMAIN sh.flattened}
DeclaredNames(shape) == {f.name : f \in DeclaredFields(shape)}
DeclaredRequired(shape) == {f.name : f \in {g \in DeclaredFields(shape) : ~g.optional}}
DeclaredType(shape, key) == (CHOOSE f \in DeclaredFields(shape) : f.name = key).type

RECURSIVE FieldValue(_, _)
\* the typed value a record holds for the declared field `k`
FieldValue(rec, k) ==
    IF k \in DOMAIN rec.own THEN rec.own[k]
    ELSE IF \E j \in DOMAIN rec.flattened : k \in DeclaredNames(rec.flattened[j].shape)
         THEN FieldValue(rec.flattened[CHOOSE j \in DOMAIN rec.flattened :
                                           k \in DeclaredNames(rec.flattened[j].shape)], k)
         ELSE FieldValue(rec.parent[1], k)

(***************************************************************************)
(* C1: decoding a compound with a known tag and valid identity fields      *)
(* returns a variant (typed or Other) and never an error, whatever the     *)
(* other fields are.                                                       *)
(***************************************************************************)
C1_FallbackNeverErrors ==
    (Decoded /\ KnownTag /\ ValidIdentity) =>
        (pc # "failed" /\ result.tag \in {"Typed", "Other"})

\* a known tag whose shape does not fit (a required field is missing, an
\* undeclared key is present) has been decoded
C1_Witness ==
    /\ pc = "decoded" /\ KnownTag /\ ValidIdentity
    /\ ChainRequiredNames(TagShape) \ InputKeys # {}
    /\ "foo" \in InputKeys
    /\ result.tag = "Other"

(***************************************************************************)
(* C2: when the tag is known and the typed decode fails, the result is     *)
(* Other with the input tag, the input identity values and exactly the     *)
(* input mapping minus the reserved keys as properties.                    *)
(***************************************************************************)
C2_TaggedFallbackKeepsInput ==
    (Decoded /\ KnownTag /\ ValidIdentity /\ ~FromCompound(TagShape, InputFlat).ok) =>
        result = Other(InputAsGeneric(InputAt("id").s))

\* Scenario B: a known tag with nothing but the identity keys
C2_Witness ==
    /\ pc = "decoded" /\ KnownTag /\ ValidIdentity
    /\ InputKeys = ReservedKeys
    /\ result.tag = "Other" /\ result.generic[1].properties = EmptyMap

(***************************************************************************)
(* C3: a tag that is not in the dispatch table yields Other with that tag, *)
(* the identity values and every non-identity field, also when the fields  *)
(* would fit a known shape.                                                *)
(***************************************************************************)
C3_UnknownTagIsOther ==
    (Decoded /\ UnknownTag /\ ValidIdentity) =>
        result = Other(InputAsGeneric(InputAt("id").s))

\* an unknown tag over fields that some shape of the table accepts
C3_Witness ==
    /\ pc = "decoded" /\ UnknownTag /\ ValidIdentity /\ InputAt("id").s # ""
    /\ \E i \in DOMAIN Table : FromCompound(Table[i].type, InputFlat).ok
    /\ result.tag = "Other"

(***************************************************************************)
(* C4: a known tag whose mapping holds every required field of the chain   *)
(* with the declared kind decodes to the typed variant of that tag, with   *)
(* every field equal to its input entry.  The fields of a compound type    *)
(* flattened into a shape of the chain count as fields of the chain.       *)
(***************************************************************************)
RequiredFieldsFit ==
    \A k \in DeclaredRequired(TagShape) :
        k \in InputKeys /\ TypeAccepts(DeclaredType(TagShape, k), InputAt(k))

\* the record of the typed variant holds the input's entry in every field
FieldsEqualInput ==
    \A k \in DeclaredNames(TagShape) :
        LET tv == FieldValue(result.rec[1], k)
        IN IF k \in InputKeys
           THEN tv.kind = DeclaredType(TagShape, k)
                /\ tv.n = InputAt(k).n /\ tv.s = InputAt(k).s
           ELSE tv = NoneVal

IsTypedVariantOfTag ==
    /\ result.tag = "Typed"
    /\ result.variant = EntryOfId(Table, InputAt("id").s).variant
    /\ result.rec[1].shape = TagShape
    /\ FieldsEqualInput

\* C4 as claimed: the required fields alone decide
C4_RequiredFieldsSuffice ==
    (Decoded /\ KnownTag /\ ValidIdentity /\ RequiredFieldsFit) => IsTypedVariantOfTag

\* every field of the chain that is present has the declared kind
PresentFieldsFit ==
    \A k \in DeclaredNames(TagShape) \cap InputKeys :
        TypeAccepts(DeclaredType(TagShape, k), InputAt(k))

RECURSIVE ExtensionFits(_, _)
\* every entry that reaches a shape with an open extension unclaimed by its
\* own fields fits the extension's value type
ExtensionFits(shape, keys) ==
    /\ Shapes[shape].extra # "" =>
           \A k \in keys \ OwnFieldNames(shape) : TypeAccepts(Shapes[shape].extra, InputAt(k))
    /\ Shapes[shape].parent # "" =>
           ExtensionFits(Shapes[shape].parent, keys \ OwnFieldNames(shape))
    /\ \A j \in DOMAIN Shapes[shape].flattened :
           ExtensionFits(Shapes[shape].flattened[j], keys \ OwnFieldNames(shape))

(***************************************************************************)
(* C4 (amended): a known tag whose mapping holds every required field of   *)
(* the chain, in which every present field of the chain (required or       *)
(* optional) has the declared kind and every entry left to an open         *)
(* extension fits the extension's type, decodes to the typed variant of    *)
(* that tag, with every field equal to its input entry; the chain's fields *)
(* include those of the compound types flattened into its shapes.          *)
(***************************************************************************)
C4_WellTypedFieldsDecodeTyped ==
    (Decoded /\ KnownTag /\ ValidIdentity /\ RequiredFieldsFit /\ PresentFieldsFit
        /\ ExtensionFits(TagShape, InputKeys \ {"id"}))
    => IsTypedVariantOfTag

\* Scenario A with an optional field of the chain left out
C4_Witness ==
    /\ pc = "decoded" /\ KnownTag /\ ValidIdentity /\ RequiredFieldsFit /\ PresentFieldsFit
    /\ DeclaredNames(TagShape) \ InputKeys # {}
    /\ InputKeys \ (DeclaredNames(TagShape) \cup {"id"}) = {}
    /\ result.tag = "Typed"

(***************************************************************************)
(* C5: encoding a decode result that is Other reproduces the input mapping *)
(* exactly, the tag key included.                                          *)
(***************************************************************************)
C5_GenericRoundTrip ==
    (pc = "encoded" /\ result.tag = "Other") => SameMapping(output, input)

(***************************************************************************)
(* C6: encoding a decode result that is a typed variant yields exactly the *)
(* input's keys and values.                                                *)
(***************************************************************************)
C6_TypedWireRoundTrip ==
    (pc = "encoded" /\ result.tag = "Typed") => SameMapping(output, input)

(***************************************************************************)
(* C9: for a block-entity compound without id, a typed result has every    *)
(* non-identity input key among the declared fields of its chain and       *)
(* flattens to the input mapping; when no candidate both declares every    *)
(* input key and decodes, the result is Other.                             *)
(***************************************************************************)
Untagged == domain = "block_entity" /\ "id" \notin InputKeys /\ ValidIdentity
VariantShape == EntryOfVariant(Table, result.variant).type
ConsumesAndDecodes(entry) ==
    /\ DOMAIN InputProps \subseteq ChainFieldNames(entry.type)
    /\ FromCompound(entry.type, InputFlat).ok

C9_UntaggedLossless ==
    (Decoded /\ Untagged) =>
        /\ result.tag \in {"Typed", "Other"}
        /\ result.tag = "Typed" =>
              /\ DOMAIN InputProps \subseteq ChainFieldNames(VariantShape)
              /\ Flatten(result.rec[1]) = InputFlat
        /\ (\A i \in DOMAIN Table : ~ConsumesAndDecodes(Table[i])) => result.tag = "Other"

\* an untagged compound resolved to a typed variant
C9_Witness ==
    /\ pc = "decoded" /\ Untagged /\ result.tag = "Typed"
    /\ DOMAIN InputProps # {}

(***************************************************************************)
(* C10 as claimed (Scenario D): the untagged mapping {Text1, Text2} over   *)
(* the candidates [Sign with required Text1, Banner with optional Text1    *)
(* and Text2] resolves to Sign.                                            *)
(***************************************************************************)
ScenarioD ==
    /\ Untagged
    /\ DOMAIN InputProps = {"Text1", "Text2"}
    /\ InputAt("Text1") = StrV("hi") /\ InputAt("Text2") = StrV("bye")

C10_ScenarioDPicksSign ==
    (Decoded /\ ScenarioD) => (result.tag = "Typed" /\ result.variant = "Sign")

\* the candidate is tried by the untagged loop and accepted
Accepts(entry) ==
    /\ DOMAIN InputProps \subseteq entry.fields
    /\ FromCompound(entry.type, InputFlat).ok

(***************************************************************************)
(* C10 (amended): Scenario D resolves to Banner, because Sign does not     *)
(* declare Text2; in general the result of untagged resolution is the      *)
(* first candidate, in table order, whose field list holds every           *)
(* non-identity input key and whose decode succeeds, even when a later     *)
(* candidate also accepts the mapping.                                     *)
(***************************************************************************)
C10_FirstCoveringCandidate ==
    (Decoded /\ Untagged) =>
        /\ ScenarioD => (result.tag = "Typed" /\ result.variant = "Banner")
        /\ \A i \in DOMAIN Table :
              (Accepts(Table[i]) /\ \A j \in 1..(i - 1) : ~Accepts(Table[j]))
                  => (result.tag = "Typed" /\ result.variant = Table[i].variant)

\* Scenario D has been decoded
C10_Witness ==
    /\ pc = "decoded" /\ ScenarioD /\ result.tag = "Typed"

\* a mapping two candidates accept, resolved to the earlier one
C10_TieWitness ==
    /\ pc = "decoded" /\ Untagged
    /\ \E i, j \in DOMAIN Table : i < j /\ Accepts(Table[i]) /\ Accepts(Table[j])
                                  /\ result.variant = Table[i].variant

(***************************************************************************)
(* C7: deserializing a shape from the flattened form of a typed record of  *)
(* that shape succeeds and yields an equal record.                         *)
(***************************************************************************)
C7_RecordRoundTrip ==
    pc = "restored" => (restored.ok /\ restored.rec[1] = record)

(***************************************************************************)
(* The canonical generic form of a variant, built from the record itself:  *)
(* the tag registered for the variant, the position held by the root       *)
(* record and the flattened fields other than x, y and z.                  *)
(***************************************************************************)
CanonicalForm(v) ==
    IF v.tag = "Other" THEN v.generic[1]
    ELSE LET m == Flatten(v.rec[1])
         IN GenericBlockEntity(EntryOfVariant(BlockEntityTable, v.variant).id,
                BlockPos(FieldValue(v.rec[1], "x").n, FieldValue(v.rec[1], "y").n,
                         FieldValue(v.rec[1], "z").n),
                [k \in DOMAIN m \ {"x", "y", "z"} |-> m[k]])
HoldsNaN(v) == \E k \in DOMAIN CanonicalForm(v).properties : CanonicalForm(v).properties[k] = NaNV

RowOf(variant) == table[CHOOSE i \in DOMAIN table : table[i].variant = variant]
RowIndex(variant) == CHOOSE i \in DOMAIN table : table[i].variant = variant
HasRequiredField(row) == ChainRequiredNames(row.type) \ {"x", "y", "z"} # {}

C11_RequiredShapesFirst ==
    (Decoded /\ Untagged /\ result.tag = "Typed" /\ ~HasRequiredField(RowOf(result.variant)))
        => \A i \in DOMAIN table :
              HasRequiredField(table[i]) => ~FromCompound(table[i].type, InputFlat).ok

\* row i of the table is attempted by the loop and deserializes
RowAccepts(i) ==
    /\ DOMAIN InputProps \subseteq table[i].fields
    /\ FromCompound(table[i].type, InputFlat).ok

(***************************************************************************)
(* C11 (amended): untagged resolution makes one pass over the rows in      *)
(* table order; a row is attempted only when its field list holds every    *)
(* non-identity key, and the first attempted row that decodes is returned  *)
(* whether or not its chain has a required field: no row before the        *)
(* returned one is attempted with success, and a typed result exists       *)
(* whenever some row is.                                                   *)
(***************************************************************************)
C11_SinglePassInTableOrder ==
    (Decoded /\ Untagged) =>
        /\ result.tag = "Typed" =>
              \E i \in DOMAIN table :
                  /\ table[i].variant = result.variant
                  /\ RowAccepts(i)
                  /\ \A j \in 1..(i - 1) : ~RowAccepts(j)
        /\ (\E i \in DOMAIN table : RowAccepts(i)) => result.tag = "Typed"

\* an optionals-only row was returned although a row with a required
\* field, declared later, accepts the mapping as well
C11_Witness ==
    /\ pc = "decoded" /\ Untagged /\ result.tag = "Typed"
    /\ ~HasRequiredField(RowOf(result.variant))
    /\ \E j \in DOMAIN table : HasRequiredField(table[j]) /\ RowAccepts(j)

(***************************************************************************)
(* C12: a block-entity compound without id that no row of the table        *)
(* accepts decodes to Other with the empty id, the position given by the   *)
(* input x, y and z, and the input mapping minus x, y and z as properties. *)
(***************************************************************************)
C12_UntaggedFallbackKeepsInput ==
    (Decoded /\ Untagged /\ \A i \in DOMAIN table : ~RowAccepts(i)) =>
        result = Other(InputAsGeneric(""))

\* a compound without id holding a key no row declares has been decoded
C12_Witness ==
    /\ pc = "decoded" /\ Untagged
    /\ "foo" \in InputKeys /\ "Text1" \in InputKeys
    /\ result.tag = "Other" /\ result.generic[1].id = ""
    /\ DOMAIN result.generic[1].properties = InputKeys \ {"x", "y", "z"}

(***************************************************************************)
(* C13: when several rows of the table accept a compound without id (the   *)
(* row's field list holds every non-identity key and the row's shape       *)
(* decodes the mapping), the result is the typed variant of the row        *)
(* declared earliest, holding the record that shape decodes from the       *)
(* mapping; the result is thus fixed by the mapping and the table.         *)
(***************************************************************************)
AcceptingRows == {i \in DOMAIN table : RowAccepts(i)}
EarliestAccepting == CHOOSE i \in AcceptingRows : \A j \in AcceptingRows : i <= j

C13_TableOrderBreaksTies ==
    (Decoded /\ Untagged /\ Cardinality(AcceptingRows) >= 2) =>
        result = Typed(table[EarliestAccepting].variant,
                       FromCompound(table[EarliestAccepting].type, InputFlat).rec[1])

\* two rows accept the mapping, in an order other than that of the
\* generated list, and the earlier one was returned
C13_Witness ==
    /\ pc = "decoded" /\ Untagged /\ table # BlockEntityTable
    /\ Cardinality(AcceptingRows) >= 2
    /\ DOMAIN InputProps # {}
    /\ result.tag = "Typed" /\ result.variant = table[EarliestAccepting].variant

(***************************************************************************)
(* What encode is to write, read off the variant itself.                   *)
(***************************************************************************)
MapUnion(a, b) == [k \in DOMAIN a \cup DOMAIN b |-> IF k \in DOMAIN a THEN a[k] ELSE b[k]]
TagEntry(id) == [id |-> StrV(id)]
IdentityOf(g) ==
    IF domain = "block_entity"
    THEN [x |-> IntV(g.pos.x), y |-> IntV(g.pos.y), z |-> IntV(g.pos.z)]
    ELSE [UUID |-> UuidV(g.uuid)]
TypedEncoding(v) ==
    MapUnion(TagEntry(EntryOfVariant(Table, v.variant).id), Flatten(v.rec[1]))
\* the stored tag unless `omit`, the identity fields and the properties
OtherEncoding(g, omit) ==
    MapUnion(IF omit THEN EmptyMap ELSE TagEntry(g.id),
             MapUnion(IdentityOf(g), g.properties))
\* the output holds every key once and denotes the mapping m
Emits(m) == NoDuplicateKeys(output) /\ MapOfSeq(output) = m

(***************************************************************************)
(* C14 as claimed: a typed variant is written as flatten(record) plus the  *)
(* tag registered for the variant; an Other variant is written with its    *)
(* stored tag, left out when it is empty, its identity fields and its      *)
(* properties; no other key is written.                                    *)
(***************************************************************************)
C14_EncodeOmitsEmptyTag ==
    pc = "encoded" =>
        IF result.tag = "Typed" THEN Emits(TypedEncoding(result))
        ELSE Emits(OtherEncoding(result.generic[1], result.generic[1].id = ""))

(***************************************************************************)
(* C14 (amended): a typed variant is written as flatten(record) plus the   *)
(* tag registered for the variant; an Other block entity is written with   *)
(* its stored tag, left out when it is empty, its x, y, z and its          *)
(* properties; an Other entity is written with its stored tag even when    *)
(* it is empty, its UUID and its properties; no other key is written.      *)
(***************************************************************************)
C14_EncodeContents ==
    pc = "encoded" =>
        IF result.tag = "Typed" THEN Emits(TypedEncoding(result))
        ELSE Emits(OtherEncoding(result.generic[1],
                                 domain = "block_entity" /\ result.generic[1].id = ""))

\* an Other block entity with the empty tag and an open property has been
\* written
C14_Witness ==
    /\ pc = "encoded" /\ domain = "block_entity"
    /\ result.tag = "Other" /\ result.generic[1].id = ""
    /\ result.generic[1].properties # EmptyMap
    /\ "id" \notin KeysOfSeq(output)

(***************************************************************************)
(* The keys a typed record is to flatten to, read off the record.          *)
(***************************************************************************)
RECURSIVE ChainKeys(_)
\* the required own fields and the present optional own fields of the
\* record and of its ancestors, and the keys of their open extensions
ChainKeys(rec) ==
    {f \in DOMAIN rec.own : ~FieldOf(rec.shape, f).optional \/ rec.own[f] # NoneVal}
        \cup DOMAIN rec.extra
        \cup (IF rec.parent = <<>> THEN {} ELSE ChainKeys(rec.parent[1]))

RECURSIVE FlattenedKeys(_)
\* the keys of the records of compound types flattened into the record or
\* into one of its ancestors
FlattenedKeys(rec) ==
    UNION {ChainKeys(rec.flattened[j]) \cup FlattenedKeys(rec.flattened[j]) :
               j \in DOMAIN rec.flattened}
        \cup (IF rec.parent = <<>> THEN {} ELSE FlattenedKeys(rec.parent[1]))

NestingMarkers == {"parent", "extra", "flattened_0"}
HasFlattened == pc \in {"flattened", "restored"}

(***************************************************************************)
(* C15 as claimed: the key set of flatten(record) is exactly the required  *)
(* own fields of the chain, the optional own fields that are present and   *)
(* the keys of the open extensions; no key stands for a struct field that  *)
(* nests another record.                                                   *)
(***************************************************************************)
C15_FlattenKeysAreChainKeys ==
    HasFlattened =>
        /\ DOMAIN flat = ChainKeys(record)
        /\ DOMAIN flat \cap NestingMarkers = {}

(***************************************************************************)
(* C15 (amended): the key set of flatten(record) is exactly the required   *)
(* own fields of the chain, the optional own fields that are present, the  *)
(* keys of the open extensions, and the keys the records of compound types *)
(* flattened into a shape of the chain flatten to; an absent optional      *)
(* field gives no key, and no key stands for a struct field that nests     *)
(* another record.                                                         *)
(***************************************************************************)
C15_FlattenKeySet ==
    HasFlattened =>
        /\ DOMAIN flat = ChainKeys(record) \cup FlattenedKeys(record)
        /\ DOMAIN flat \cap NestingMarkers = {}

\* a record of a three-level chain, its optional field absent and its
\* extension holding a key, has been flattened
C15_Witness ==
    /\ pc = "flattened" /\ record.shape = "ChestBlockEntity"
    /\ record.parent[1].own["Lock"] = NoneVal
    /\ record.extra # EmptyMap
    /\ DOMAIN flat = {"x", "y", "z", "foo"}

(***************************************************************************)
(* Vocabulary of direct deserialization.                                   *)
(***************************************************************************)
Unflattened == pc = "unflattened"
\* apart from absent keys nothing is wrong with the input: no key occurs
\* twice, every declared field that is present has the declared kind, and
\* every entry that reaches an open extension fits its type
OtherwiseWellFormed ==
    /\ NoDuplicateKeys(input)
    /\ \A k \in DeclaredNames(target) \cap InputKeys :
           TypeAccepts(DeclaredType(target, k), InputAt(k))
    /\ ExtensionFits(target, InputKeys)

(***************************************************************************)
(* C16: deserializing a shape directly from a mapping that lacks a         *)
(* required own field of the shape or of an ancestor fails, with the       *)
(* missing-field error when nothing else is wrong with the mapping; a      *)
(* mapping that holds every required field and lacks an optional one       *)
(* deserializes, nothing else being wrong, to a record whose field is      *)
(* None.                                                                   *)
(***************************************************************************)
C16_MissingFields ==
    Unflattened =>
        /\ ChainRequiredNames(target) \ InputKeys # {} => ~restored.ok
        /\ (ChainRequiredNames(target) \ InputKeys # {} /\ OtherwiseWellFormed)
               => restored.err = "missing_field"
        /\ (DeclaredRequired(target) \subseteq InputKeys /\ OtherwiseWellFormed) =>
               /\ restored.ok
               /\ \A k \in ChainFieldNames(target) \ InputKeys :
                      FieldValue(restored.rec[1], k) = NoneVal

\* a shape whose own required field is present and whose ancestor's
\* required field is absent was refused
C16_Witness ==
    /\ Unflattened /\ target = "SignBlockEntity"
    /\ "Text1" \in InputKeys /\ "x" \notin InputKeys
    /\ OtherwiseWellFormed
    /\ restored.err = "missing_field"

\* a shape was deserialized from a mapping without its optional fields
C16_OptionalWitness ==
    /\ Unflattened /\ target = "BannerBlockEntity"
    /\ "Text1" \in InputKeys /\ "Text2" \notin InputKeys
    /\ restored.ok /\ restored.rec[1].own["Text2"] = NoneVal

(***************************************************************************)
(* C17: after a shape that declares an open extension has been             *)
(* deserialized, the extension map holds exactly the input keys that no    *)
(* own field of the shape or of an ancestor claims; in particular no key   *)
(* claimed by a parent's field is in the extension.                        *)
(***************************************************************************)
C17_ExtensionHoldsUnclaimedKeys ==
    (Unflattened /\ Shapes[target].extra # "" /\ restored.ok) =>
        DOMAIN restored.rec[1].extra = InputKeys \ ChainFieldNames(target)

(***************************************************************************)
(* C18: when an identity key, or a field declared by the shape of the      *)
(* input's tag, occurs twice in the entry sequence, decode returns the     *)
(* duplicate-field error: it neither keeps one of the two values nor       *)
(* falls back to Other.                                                    *)
(***************************************************************************)
RepeatedKeys ==
    {input[i].key : i \in {j \in DOMAIN input :
                              \E k \in DOMAIN input : k # j /\ input[k].key = input[j].key}}
TagOf(entries) ==
    LET at == {i \in DOMAIN entries : entries[i].key = "id"}
    IN IF at = {} THEN "" ELSE entries[CHOOSE i \in at : \A j \in at : i <= j].value.s
DeclaredByTag ==
    IF TagOf(input) \in KnownIds(Table)
    THEN DeclaredNames(EntryOfId(Table, TagOf(input)).type)
    ELSE {}

C18_DuplicateIsHardError ==
    (Decoded /\ RepeatedKeys \cap (ReservedKeys \cup DeclaredByTag) # {}) =>
        result = Err("duplicate_field")

(***************************************************************************)
(* C19: reserved identity keys stay out of the open properties.            *)
(***************************************************************************)
\* as_generic of the decoded variant
Canonical ==
    IF domain = "block_entity" THEN BlockEntityAsGeneric(result) ELSE EntityAsGeneric(result)
CanCanonicalize ==
    /\ domain \in {"block_entity", "entity"}
    /\ pc \in {"decoded", "encoded", "panicked"}
    /\ ~AsGenericPanics(domain, result)

\* C19: for every variant decode produced (typed, tagged fallback, unknown
\* tag or untagged), the properties of as_generic hold none of the reserved
\* keys (id, x, y, z for a block entity; id, UUID for an entity), and the
\* identity slot holds the input's values: the position or the UUID of the
\* input, and the input's tag when it has one (without a tag, the slot is
\* empty for Other and the row's tag for a typed variant)
C19_ReservedKeysOutOfProperties ==
    CanCanonicalize =>
        /\ DOMAIN Canonical.properties \cap ReservedKeys = {}
        /\ IF domain = "block_entity"
           THEN Canonical.pos = BlockPos(InputAt("x").n, InputAt("y").n, InputAt("z").n)
           ELSE Canonical.uuid = InputAt("UUID").n
        /\ IF HasTag
           THEN Canonical.id = InputAt("id").s
           ELSE IF result.tag = "Other"
                THEN Canonical.id = ""
                ELSE Canonical.id = EntryOfVariant(Table, result.variant).id

\* as_generic never panics on a variant decode produced
C19_CanonicalizeTotal == pc # "panicked"

\* a typed chest whose extension holds x, y and z, canonicalized with a
\* property left over
C19_Witness ==
    /\ CanCanonicalize
    /\ result.tag = "Typed"
    /\ result.rec[1].shape = "ChestBlockEntity"
    /\ "x" \in DOMAIN result.rec[1].extra
    /\ Canonical.properties # EmptyMap

(***************************************************************************)
(* C20: BlockPos::abs.                                                     *)
(***************************************************************************)
\* C20: abs returns the UVec3 whose components are the absolute values of
\* the corresponding components of the position: abs(p).x = |p.x|,
\* abs(p).y = |p.y| and abs(p).z = |p.z|
C20_AbsIsComponentwise ==
    pc = "converted" =>
        /\ vec.x = UnsignedAbs(pos.x)
        /\ vec.y = UnsignedAbs(pos.y)
        /\ vec.z = UnsignedAbs(pos.z)

\* what abs does return: the absolute value of x in all three components
C20_AbsRepeatsX ==
    pc = "converted" =>
        vec = UVec3(UnsignedAbs(pos.x), UnsignedAbs(pos.x), UnsignedAbs(pos.x))

(***************************************************************************)
(* C21: the channels of a map colour.                                      *)
(***************************************************************************)
Red == (color \div 65536) % 256
Green == (color \div 256) % 256
Blue == color % 256

\* C21: for every MapColor other than None, packed_argb has alpha byte 0xff
\* and low 24 bits equal to the colour value, rgba() is [r, g, b, 0xff] and
\* calc_rgba(b) is [r*b/255, g*b/255, b_*b/255, 0xff], so that calc_rgba(255)
\* equals rgba(); for MapColor::None all three are zero in every channel
C21_MapColorChannels ==
    /\ pc = "packed" =>
           IF color = 0 THEN shade = <<0, 0, 0, 0>>
           ELSE /\ shade[1] = 255
                /\ shade[2] * 65536 + shade[3] * 256 + shade[4] = color
    /\ pc = "rgba" =>
           IF color = 0 THEN shade = <<0, 0, 0, 0>>
           ELSE shade = <<Red, Green, Blue, 255>>
    /\ pc = "calculated" =>
           IF color = 0 THEN shade = <<0, 0, 0, 0>>
           ELSE /\ shade = <<(Red * brightness) \div 255, (Green * brightness) \div 255,
                             (Blue * brightness) \div 255, 255>>
                /\ brightness = 255 => shade = Rgba(color)

\* a colour with three different channels, scaled by a brightness that
\* rounds every channel down
C21_Witness ==
    /\ pc = "calculated"
    /\ color = 200 * 65536 + 127 * 256 + 1
    /\ brightness = 128
    /\ shade = <<100, 63, 0, 255>>

(***************************************************************************)
(* C22: a typed block state on the wire.                                   *)
(***************************************************************************)
WireAt(entries, k) == entries[CHOOSE i \in DOMAIN entries : entries[i].key = k].value
WireKeys(entries) == {entries[i].key : i \in DOMAIN entries}
BuiltRow == BlockRowOfVariant(block.variant)
DeclaredProps(row) == {row.props[i].prop_str : i \in DOMAIN row.props}
PropOfStr(row, k) == row.props[CHOOSE i \in DOMAIN row.props : row.props[i].prop_str = k]

\* C22: a typed block state encodes to {Name: registered id, Properties:
\* {property name: string form of the value}} with one entry per declared
\* property, and decoding that encoding returns the same typed variant with
\* the same property values, not Other
C22_TypedStateRoundTrip ==
    block.tag = "Typed" =>
        /\ pc \in {"sent", "reread"} =>
              /\ Len(wire) = 2 /\ WireKeys(wire) = {"Name", "Properties"}
              /\ WireAt(wire, "Name") = WireStr(BuiltRow.id)
              /\ WireAt(wire, "Properties").kind = "Compound"
              /\ DOMAIN WireAt(wire, "Properties").map = DeclaredProps(BuiltRow)
              /\ \A k \in DeclaredProps(BuiltRow) :
                    LET str == WireAt(wire, "Properties").map[k]
                        prop == PropOfStr(BuiltRow, k)
                    IN /\ str.kind = "String"
                       /\ PropFromStr(prop.type, str.s) = {block.fields[prop.prop]}
        /\ pc = "reread" => reread = block

\* a slab, whose property `type` is renamed, read back from its encoding
C22_Witness ==
    /\ pc = "reread"
    /\ block.tag = "Typed" /\ block.variant = "OakSlab"
    /\ WireAt(wire, "Properties").map = [type |-> StrV("double"), waterlogged |-> StrV("true")]
    /\ reread = block

(***************************************************************************)
(* C23: the parent is reconstructed from what the child left.              *)
(***************************************************************************)
\* the entries of the input that no own field of the target claims
Unclaimed == SelectSeq(input, LAMBDA e : e.key \notin OwnFieldNames(target))

RECURSIVE AncestorHolds(_, _)
\* some ancestor of the record holds a value for the field `k`
AncestorHolds(rec, k) ==
    /\ rec.parent # <<>>
    /\ \/ k \in DOMAIN rec.parent[1].own /\ rec.parent[1].own[k] # NoneVal
       \/ AncestorHolds(rec.parent[1], k)

\* C23: a shape's own-field keys are removed from the mapping before its
\* parent is reconstructed: a key claimed by an own field is never decoded
\* by the parent or any further ancestor, and the parent is decoded from
\* exactly the entries the child did not claim
C23_ParentSeesUnclaimedOnly ==
    (pc = "unflattened" /\ restored.ok) =>
        /\ restored.rec[1].parent = DeserializeShape(Shapes[target].parent, Unclaimed).rec
        /\ \A k \in OwnFieldNames(target) : ~AncestorHolds(restored.rec[1], k)

\* a locked chest decoded from a compound with a Lock: the child holds the
\* lock and its parent, which declares Lock too, holds none
C23_Witness ==
    /\ pc = "unflattened" /\ restored.ok
    /\ target = "LockedChestBlockEntity"
    /\ restored.rec[1].own["Lock"] # NoneVal
    /\ restored.rec[1].parent[1].own["Lock"] = NoneVal
    /\ Len(Unclaimed) < Len(input)

(***************************************************************************)
(* C24: block-state decode falls back to Other.                            *)
(***************************************************************************)
StateKeys == WireKeys(state)
\* the compound holds each of its keys once, a string Name and, if any, a
\* Properties compound of strings, and nothing else
WellFormedState ==
    /\ \A i, j \in DOMAIN state : state[i].key = state[j].key => i = j
    /\ StateKeys \subseteq {"Name", "Properties"}
    /\ "Name" \in StateKeys /\ WireAt(state, "Name").kind = "String"
    /\ "Properties" \in StateKeys => IsStringMap(WireAt(state, "Properties"))
\* the Properties key, if any, occurs once and holds a compound of strings
WellFormedStateProperties ==
    /\ \A i, j \in DOMAIN state : state[i].key = state[j].key => i = j
    /\ "Properties" \in StateKeys => IsStringMap(WireAt(state, "Properties"))
StateName == WireAt(state, "Name").s
\* the input's Properties, an absent key counting as the empty map
StateProperties ==
    IF "Properties" \in StateKeys THEN StringMapOf(WireAt(state, "Properties")) ELSE EmptyMap
StateDecoded == pc \in {"read", "rejected", "written"}
\* a declared property of the row is missing or its string does not parse
SomePropertyUnfit(row) ==
    \E i \in DOMAIN row.props :
        \/ row.props[i].prop_str \notin DOMAIN StateProperties
        \/ PropFromStr(row.props[i].type, StateProperties[row.props[i].prop_str]) = {}

\* C24: block-state decode falls back instead of failing: for a known name,
\* if a declared property is missing from Properties or its string does not
\* parse as the declared type, the result is Other with the input name and
\* the full input properties; for an unknown name the result is Other with
\* the input name and properties; a missing Properties key is read as the
\* empty map
C24_BlockStateFallback ==
    (StateDecoded /\ WellFormedState) =>
        /\ block.tag # "Err"
        /\ IF StateName \in BlockIds /\ ~SomePropertyUnfit(BlockRowOfId(StateName))
           THEN block.tag = "Typed" /\ block.variant = BlockRowOfId(StateName).variant
           ELSE block = OtherState(GenericBlockState(StateName, StateProperties))

\* a note block whose note is out of range, with a key no row declares
C24_Witness ==
    /\ pc = "read" /\ WellFormedState
    /\ StateName = "minecraft:note_block"
    /\ StateProperties = [instrument |-> "banjo", note |-> ToString(MaxNote + 1),
                          powered |-> "true", foo |-> "bar"]
    /\ block = OtherState(GenericBlockState("minecraft:note_block", StateProperties))

\* a slab without a Properties key: Other with an empty map
C24_AbsentPropertiesWitness ==
    /\ pc = "read" /\ WellFormedState
    /\ "Properties" \notin StateKeys
    /\ block = OtherState(GenericBlockState("minecraft:oak_slab", EmptyMap))

(***************************************************************************)
(* C25: identity keys are outside the fallback policy.                     *)
(***************************************************************************)
\* the identity keys decode requires of the domain
RequiredIdentity ==
    IF domain = "block_entity" THEN {"x", "y", "z"} ELSE {"id", "UUID"}
\* every identity key the input holds has the kind the key loop reads
PresentIdentityFits ==
    \A k \in ReservedKeys \cap InputKeys :
        InputAt(k).kind = (IF k = "id" THEN "String"
                           ELSE IF k = "UUID" THEN "IntArray" ELSE "Int")

\* C25: block-entity decode returns a missing-field error whenever x, y or
\* z is absent, whether the id is known, unknown or absent; entity decode
\* returns a missing-field error whenever id or UUID is absent; block-state
\* decode returns an error when Name is absent; in none of these cases is a
\* variant produced.  (The error is the missing-field one unless the key
\* loop has already refused an identity key of the wrong kind.)
C25_IdentityKeysRequired ==
    /\ (domain \in {"block_entity", "entity"} /\ Decoded
           /\ ~(RequiredIdentity \subseteq InputKeys)) =>
          /\ result.tag = "Err" /\ pc = "failed"
          /\ PresentIdentityFits => result.err = "missing_field"
    /\ (StateDecoded /\ "Name" \notin StateKeys) =>
          /\ block.tag = "Err" /\ pc = "rejected"
          /\ StateKeys \subseteq {"Properties"} /\ WellFormedStateProperties
                 => block.err = "missing_field"

\* a block entity with a known id, x and z but no y was refused
C25_Witness ==
    /\ domain = "block_entity" /\ pc = "failed"
    /\ KnownTag /\ InputKeys \cap {"x", "y", "z"} = {"x", "z"}
    /\ PresentIdentityFits
    /\ result = Err("missing_field")

\* an untagged block entity without z, an entity without id and a block
\* state without Name were refused
C25_UntaggedWitness ==
    /\ domain = "block_entity" /\ pc = "failed"
    /\ "id" \notin InputKeys /\ "z" \notin InputKeys /\ PresentIdentityFits
    /\ result = Err("missing_field")
C25_EntityWitness ==
    /\ domain = "entity" /\ pc = "failed"
    /\ "id" \notin InputKeys /\ "UUID" \in InputKeys /\ PresentIdentityFits
    /\ result = Err("missing_field")
C25_BlockStateWitness ==
    /\ pc = "rejected" /\ StateKeys = {"Properties"}
    /\ block = ErrState("missing_field")

(***************************************************************************)
(* C26: the position of a decoded block entity.                            *)
(***************************************************************************)
InputPos == BlockPos(InputAt("x").n, InputAt("y").n, InputAt("z").n)

\* C26: for every block-entity variant v produced by decode, v.position()
\* equals as_generic(v).pos and the (x, y, z) of the input compound, whether
\* v is a typed variant at any chain depth or the Other variant
C26_PositionIsInputPosition ==
    (domain = "block_entity" /\ pc \in {"decoded", "encoded", "panicked"}) =>
        /\ ~AsGenericPanics(domain, result)
        /\ BlockEntityPosition(result) = BlockEntityAsGeneric(result).pos
        /\ BlockEntityPosition(result) = InputPos

\* a typed chest, two steps below the root record, with distinct y and z
C26_Witness ==
    /\ domain = "block_entity" /\ pc = "decoded"
    /\ result.tag = "Typed" /\ result.variant = "Chest"
    /\ Indirection(result.rec[1].shape) = 2
    /\ BlockEntityPosition(result) = InputPos
    /\ InputPos.y # InputPos.z

(***************************************************************************)
(* C27: encoding a block entity and decoding the encoding.                 *)
(***************************************************************************)
\* C27: for every block-entity variant v, typed or Other, an Other with an
\* empty id included, decoding the encoding of v yields a variant equal to
\* v under the as_generic-based equality: the same id, pos and properties
C27_EncodeDecodeStable ==
    pc = "returned" =>
        /\ result.tag # "Err"
        /\ BlockEntityEq(va, result)

\* what does hold: a variant that holds no NaN and is no Other with an
\* empty id is equal to the decoding of its encoding
C27_StableWithTag ==
    (pc = "returned" /\ ~HoldsNaN(va) /\ ~(va.tag = "Other" /\ va.generic[1].id = "")) =>
        /\ result.tag # "Err"
        /\ BlockEntityEq(va, result)

(***************************************************************************)
(* C28: decoding a block state and encoding the result.                    *)
(***************************************************************************)
\* C28: for every compound {Name, Properties} that decodes successfully,
\* encoding the result yields the same Name and a Properties map equal to
\* the input's, an absent input Properties counting as empty, also when the
\* name is known and Properties holds keys the variant does not declare
C28_BlockStateWireRoundTrip ==
    pc = "written" =>
        /\ WireAt(wire, "Name") = WireStr(StateName)
        /\ IsStringMap(WireAt(wire, "Properties"))
        /\ StringMapOf(WireAt(wire, "Properties")) = StateProperties

\* what does hold: the Name is kept, and so is every property when the
\* result is Other or when every key of Properties is declared by the row
C28_RoundTripOfDeclaredKeys ==
    pc = "written" =>
        /\ WireAt(wire, "Name") = WireStr(StateName)
        /\ (block.tag = "Other"
               \/ DOMAIN StateProperties \subseteq DeclaredProps(BlockRowOfId(StateName)))
              => StringMapOf(WireAt(wire, "Properties")) = StateProperties

(***************************************************************************)
(* C29: the unused-key count of untagged resolution.                       *)
(***************************************************************************)
\* the keys of the mapping the loop counts over (the properties with x, y
\* and z inserted) that the field list of row i lacks
Uncounted(i) == {k \in InputKeys : k \notin table[i].fields}

\* C29: in untagged resolution the unused-key count of a candidate never
\* underflows: x, y and z are in the mapping and in no field list, so the
\* count before the subtraction is at least 3 for every candidate and every
\* input, and a candidate is attempted exactly when that count is 3: the
\* variant returned is the first candidate with count 3 that deserializes,
\* and Other is returned only when there is none
C29_UnusedKeysNeverUnderflow ==
    (Decoded /\ Untagged /\ ValidIdentity) =>
        /\ \A i \in DOMAIN table :
              /\ {"x", "y", "z"} \subseteq Uncounted(i)
              /\ Cardinality(Uncounted(i)) >= 3
              /\ UnusedKeys(table[i], InputFlat) >= 0
              /\ UnusedKeys(table[i], InputFlat) = 0 <=> Cardinality(Uncounted(i)) = 3
        /\ result.tag = "Typed" => Cardinality(Uncounted(RowIndex(result.variant))) = 3
        /\ \A i \in DOMAIN table :
              (Cardinality(Uncounted(i)) = 3 /\ FromCompound(table[i].type, InputFlat).ok)
                  => /\ result.tag = "Typed"
                     /\ RowIndex(result.variant) <= i

\* a mapping with one key beyond x, y and z: a row that declares the key
\* has count 3 and is returned, and a row that lacks it has count 4
C29_Witness ==
    /\ pc = "decoded" /\ Untagged /\ ValidIdentity
    /\ result.tag = "Typed"
    /\ Cardinality(Uncounted(RowIndex(result.variant))) = 3
    /\ Cardinality(InputKeys) = 4
    /\ \E i \in DOMAIN table : Cardinality(Uncounted(i)) = 4

=============================================================================
